---- MODULE Spec2Model ----
(***************************************************************************)
(* Model of the mod-pack comparator: the directory scanner, the snapshot   *)
(* diff engine and the scan pipeline of the application                    *)
(* (src/src/scanner.rs, src/src/main.rs).                                  *)
(*                                                                         *)
(* Strings of the program are modelled as sequences of one-character       *)
(* strings, so that suffix tests, stems and emptiness are computed as the  *)
(* code computes them.                                                     *)
(***************************************************************************)
EXTENDS Naturals, Sequences, FiniteSets, TLC

VARIABLES
    old,        \* compare_snapshots: the old snapshot
    new,        \* compare_snapshots: the new snapshot
    changes,    \* compare_snapshots: the Changes returned
    dpc,        \* position of the diff run: "idle" | "ready" | "done" |
                \* "given" | "reported"
    md,         \* generate_markdown: the report returned
    dir,        \* scan_mods_directory: the directory given to the scanner
    snap,       \* scan_mods_directory: the snapshot returned
    spc,        \* position of the scanner run: "idle" | "ready" | "done"
    app,        \* the fields of App that the scan pipeline reads and writes
    workers,    \* the scan threads spawned so far, each with its locals
    chan,       \* chan[w]: the results sent by worker w and not yet received
    fs,         \* the mods directory and the snapshot and changelog files
    clock,      \* the wall clock
    naming,     \* the naming helpers: their arguments and what they return
    reader      \* the metadata reader: the text or archive given, and what
                \* the sanitizer and the reader return

diffVars == <<old, new, changes, dpc, md>>

scanVars == <<dir, snap, spc, reader>>

appVars == <<app, workers, chan, fs, clock>>

vars ==
    <<old, new, changes, dpc, md, dir, snap, spc, app, workers, chan, fs, clock, naming,
      reader>>

(***************************************************************************)
(* Bounds                                                                  *)
(***************************************************************************)
\* most records (active plus disabled) in one snapshot given to the diff
MaxMods == 2

\* most entries in a directory given to the scanner
MaxFiles == 3

\* most scans started in one run of the application
MaxScans == 2

\* most characters in a text given to a pass of the sanitizer
MaxText == 5

(***************************************************************************)
(* Strings                                                                 *)
(***************************************************************************)
JAR_EXT == <<".", "j", "a", "r">>

DISABLED_EXT == <<".", "j", "a", "r", ".", "d", "i", "s", "a", "b", "l", "e", "d">>

FABRIC == <<"f", "a", "b", "r", "i", "c">>

QUILT == <<"q", "u", "i", "l", "t">>

\* Option<T>: None and Some(x)
None == <<>>

Some(x) == <<x>>

is_some(o) == o # <<>>

\* o.unwrap_or(d)
unwrap_or(o, d) == IF o = <<>> THEN d ELSE o[1]

UNKNOWN == <<"u", "n", "k", "n", "o", "w", "n">>

\* the path of the mods directory
MODS_DIR == <<"p", "/", "m", "o", "d", "s">>

\* the characters of the model's strings in ascending code-point order
Alphabet ==
    <<" ", "!", "-", ".", "/",
      "0", "1", "2", "3", "4", "5", "6", "7", "8", "9",
      "A", "B", "C", "D", "E", "F", "G", "H", "I", "J", "K", "L", "M",
      "N", "O", "P", "Q", "R", "S", "T", "U", "V", "W", "X", "Y", "Z",
      "_",
      "a", "b", "c", "d", "e", "f", "g", "h", "i", "j", "k", "l", "m",
      "n", "o", "p", "q", "r", "s", "t", "u", "v", "w", "x", "y", "z">>

CharRank(c) == CHOOSE i \in DOMAIN Alphabet : Alphabet[i] = c

UpperCase == {Alphabet[i] : i \in 16..41}

LowerCase == {Alphabet[i] : i \in 43..68}

Digit == {Alphabet[i] : i \in 6..15}

\* char::is_whitespace, for the characters of the alphabet
IsSpace(c) == c = " "

\* str::to_lowercase, for the characters of the alphabet
to_lowercase(s) ==
    [i \in DOMAIN s |-> IF s[i] \in UpperCase THEN Alphabet[CharRank(s[i]) + 27] ELSE s[i]]

\* str::trim
trim(s) ==
    LET solid == {i \in DOMAIN s : ~IsSpace(s[i])}
    IN  IF solid = {} THEN <<>>
        ELSE SubSeq(s, CHOOSE i \in solid : \A j \in solid : i <= j,
                       CHOOSE i \in solid : \A j \in solid : j <= i)

\* str::ends_with
ends_with(s, suffix) ==
    /\ Len(suffix) <= Len(s)
    /\ SubSeq(s, Len(s) - Len(suffix) + 1, Len(s)) = suffix

\* Ord for str (and for paths of one directory): byte-wise lexicographic,
\* a proper prefix first
RECURSIVE StrLess(_, _)
StrLess(s, t) ==
    IF t = <<>> THEN FALSE
    ELSE IF s = <<>> THEN TRUE
    ELSE IF Head(s) # Head(t) THEN CharRank(Head(s)) < CharRank(Head(t))
    ELSE StrLess(Tail(s), Tail(t))

\* Path::file_stem of a file name: the whole name when it holds no dot, or
\* only a leading one; otherwise the part before the last dot
file_stem(filename) ==
    LET dots == {i \in DOMAIN filename : filename[i] = "."}
    IN  IF dots = {} \/ dots = {1} THEN filename
        ELSE SubSeq(filename, 1, (CHOOSE i \in dots : \A j \in dots : j <= i) - 1)

(***************************************************************************)
(* Data model (scanner.rs: ModData, SnapshotStats, Snapshot, UpdatedMod,   *)
(* Changes)                                                                *)
(***************************************************************************)
ModData(filename, id, name, version, loader, disabled) ==
    [filename |-> filename, id |-> id, name |-> name, version |-> version,
     loader |-> loader, disabled |-> disabled]

SnapshotStats(total, active, disabled, failed) ==
    [total |-> total, active |-> active, disabled |-> disabled, failed |-> failed]

Snapshot(timestamp, mods_dir, active, disabled, failed, stats) ==
    [timestamp |-> timestamp, mods_dir |-> mods_dir, active |-> active,
     disabled |-> disabled, failed |-> failed, stats |-> stats]

UpdatedMod(id, name, old_version, new_version, filename) ==
    [id |-> id, name |-> name, old_version |-> old_version,
     new_version |-> new_version, filename |-> filename]

\* Changes::default()
ChangesDefault ==
    [added |-> <<>>, removed |-> <<>>, updated |-> <<>>,
     newly_disabled |-> <<>>, newly_enabled |-> <<>>, unchanged |-> <<>>]

\* Changes::total_changes
total_changes(ch) ==
    Len(ch.added) + Len(ch.removed) + Len(ch.updated)
        + Len(ch.newly_disabled) + Len(ch.newly_enabled)

(***************************************************************************)
(* compare_snapshots                                                       *)
(***************************************************************************)
\* the ids of a list of records
IdsOf(list) == {list[k].id : k \in DOMAIN list}

Last(S) == CHOOSE k \in S : \A j \in S : j <= k

First(S) == CHOOSE k \in S : \A j \in S : k <= j

\* mutant of IdMap: the first record of an id is kept instead of the last
IdMapFirstWins(list) ==
    [i \in IdsOf(list) |-> list[First({k \in DOMAIN list : list[k].id = i})]]

\* list.iter().map(|m| (m.id.as_str(), m)).collect::<HashMap>(): a later
\* record of the same id replaces an earlier one
IdMap(list) ==
    [i \in IdsOf(list) |-> list[Last({k \in DOMAIN list : list[k].id = i})]]

\* the orders in which a hash map may present its keys
KeyOrders(map) ==
    LET n == Cardinality(DOMAIN map)
    IN  {s \in [1..n -> DOMAIN map] : \A i, j \in 1..n : i # j => s[i] # s[j]}

\* mutant of ClassifyNew: the version test is inverted
ClassifyNewInverted(ch, mod_id, m, old_active, old_disabled) ==
    IF mod_id \notin DOMAIN old_active /\ mod_id \notin DOMAIN old_disabled
    THEN [ch EXCEPT !.added = Append(@, m)]
    ELSE IF mod_id \in DOMAIN old_disabled
    THEN [ch EXCEPT !.newly_enabled = Append(@, m)]
    ELSE IF mod_id \in DOMAIN old_active
    THEN IF m.version = old_active[mod_id].version
         THEN [ch EXCEPT !.updated = Append(@,
                  UpdatedMod(mod_id, m.name, old_active[mod_id].version,
                             m.version, m.filename))]
         ELSE [ch EXCEPT !.unchanged = Append(@, m)]
    ELSE ch

\* mutant of ClassifyNew: old_active is looked up before old_disabled
ClassifyNewActiveFirst(ch, mod_id, m, old_active, old_disabled) ==
    IF mod_id \notin DOMAIN old_active /\ mod_id \notin DOMAIN old_disabled
    THEN [ch EXCEPT !.added = Append(@, m)]
    ELSE IF mod_id \in DOMAIN old_active
    THEN IF m.version # old_active[mod_id].version
         THEN [ch EXCEPT !.updated = Append(@,
                  UpdatedMod(mod_id, m.name, old_active[mod_id].version,
                             m.version, m.filename))]
         ELSE [ch EXCEPT !.unchanged = Append(@, m)]
    ELSE [ch EXCEPT !.newly_enabled = Append(@, m)]

\* mutant of ClassifyNew: added does not look at old_disabled
ClassifyNewAddedIgnoresDisabled(ch, mod_id, m, old_active, old_disabled) ==
    IF mod_id \notin DOMAIN old_active
    THEN [ch EXCEPT !.added = Append(@, m)]
    ELSE IF mod_id \in DOMAIN old_disabled
    THEN [ch EXCEPT !.newly_enabled = Append(@, m)]
    ELSE IF m.version # old_active[mod_id].version
         THEN [ch EXCEPT !.updated = Append(@,
                  UpdatedMod(mod_id, m.name, old_active[mod_id].version,
                             m.version, m.filename))]
         ELSE [ch EXCEPT !.unchanged = Append(@, m)]

\* mutant of ClassifyNew: the whole records are compared, not the versions
ClassifyNewWholeRecord(ch, mod_id, m, old_active, old_disabled) ==
    IF mod_id \notin DOMAIN old_active /\ mod_id \notin DOMAIN old_disabled
    THEN [ch EXCEPT !.added = Append(@, m)]
    ELSE IF mod_id \in DOMAIN old_disabled
    THEN [ch EXCEPT !.newly_enabled = Append(@, m)]
    ELSE IF mod_id \in DOMAIN old_active
    THEN IF m # old_active[mod_id]
         THEN [ch EXCEPT !.updated = Append(@,
                  UpdatedMod(mod_id, m.name, old_active[mod_id].version,
                             m.version, m.filename))]
         ELSE [ch EXCEPT !.unchanged = Append(@, m)]
    ELSE ch

\* body of the loop over new_active (one key and its record), lines 289-305
ClassifyNew(ch, mod_id, m, old_active, old_disabled) ==
    IF mod_id \notin DOMAIN old_active /\ mod_id \notin DOMAIN old_disabled
    THEN [ch EXCEPT !.added = Append(@, m)]
    ELSE IF mod_id \in DOMAIN old_disabled
    THEN [ch EXCEPT !.newly_enabled = Append(@, m)]
    ELSE IF mod_id \in DOMAIN old_active
    THEN IF m.version # old_active[mod_id].version
         THEN [ch EXCEPT !.updated = Append(@,
                  UpdatedMod(mod_id, m.name, old_active[mod_id].version,
                             m.version, m.filename))]
         ELSE [ch EXCEPT !.unchanged = Append(@, m)]
    ELSE ch

\* mutant of ClassifyOld: removed does not look at new_disabled
ClassifyOldRemovedIgnoresDisabled(ch, mod_id, m, new_active, new_disabled) ==
    IF mod_id \notin DOMAIN new_active
    THEN [ch EXCEPT !.removed = Append(@, m)]
    ELSE IF mod_id \in DOMAIN new_disabled
    THEN [ch EXCEPT !.newly_disabled = Append(@, new_disabled[mod_id])]
    ELSE ch

\* body of the loop over old_active (one key and its record), lines 309-313
ClassifyOld(ch, mod_id, m, new_active, new_disabled) ==
    IF mod_id \notin DOMAIN new_active /\ mod_id \notin DOMAIN new_disabled
    THEN [ch EXCEPT !.removed = Append(@, m)]
    ELSE IF mod_id \in DOMAIN new_disabled
    THEN [ch EXCEPT !.newly_disabled = Append(@, new_disabled[mod_id])]
    ELSE ch

RECURSIVE LoopNew(_, _, _, _, _)
\* for (mod_id, m) in &new_active, the keys taken in the order ord
LoopNew(ch, ord, new_active, old_active, old_disabled) ==
    IF ord = <<>> THEN ch
    ELSE LoopNew(ClassifyNew(ch, Head(ord), new_active[Head(ord)],
                             old_active, old_disabled),
                 Tail(ord), new_active, old_active, old_disabled)

RECURSIVE LoopOld(_, _, _, _, _)
\* for (mod_id, m) in &old_active, the keys taken in the order ord
LoopOld(ch, ord, old_active, new_active, new_disabled) ==
    IF ord = <<>> THEN ch
    ELSE LoopOld(ClassifyOld(ch, Head(ord), old_active[Head(ord)],
                             new_active, new_disabled),
                 Tail(ord), old_active, new_active, new_disabled)

\* mutant of compare_snapshots: the lookups of the active records are built
\* from the active and the disabled list together
compare_snapshotsMerged(o, n, ordNew, ordOld) ==
    LET old_active == IdMap(o.active \o o.disabled)
        new_active == IdMap(n.active \o n.disabled)
        old_disabled == IdMap(o.disabled)
        new_disabled == IdMap(n.disabled)
        afterNew == LoopNew(ChangesDefault,
                            CHOOSE s \in KeyOrders(new_active) : TRUE,
                            new_active, old_active, old_disabled)
    IN  LoopOld(afterNew, CHOOSE s \in KeyOrders(old_active) : TRUE,
                old_active, new_active, new_disabled)

\* compare_snapshots(old, new); ordNew and ordOld are the orders in which the
\* two hash maps new_active and old_active present their keys
compare_snapshots(o, n, ordNew, ordOld) ==
    LET old_active == IdMap(o.active)
        new_active == IdMap(n.active)
        old_disabled == IdMap(o.disabled)
        new_disabled == IdMap(n.disabled)
        afterNew == LoopNew(ChangesDefault, ordNew, new_active, old_active,
                            old_disabled)
    IN  LoopOld(afterNew, ordOld, old_active, new_active, new_disabled)


(***************************************************************************)
(* sanitize_json and escape_raw_newlines                                   *)
(*                                                                         *)
(* A text is a sequence of characters.  Besides letters, the texts of the  *)
(* model hold the characters named below; BOM stands for U+FEFF and FF for *)
(* the control character U+000C.                                           *)
(***************************************************************************)
QUOTE == "\""

BACKSLASH == "\\"

LF == "\n"

CR == "\r"

TAB == "\t"

FF == "\f"

BOM == "BOM"

\* the characters [\x00-\x08\x0B\x0C\x0E-\x1F\x7F] of the model
ControlChars == {FF}

\* the characters matched by \s in the regex crate, of the model
RegexSpace == {" ", TAB, LF, CR, FF}

\* str::starts_with at offset i: pat occurs in s at position i
OccursAt(s, i, pat) ==
    /\ i + Len(pat) - 1 <= Len(s)
    /\ SubSeq(s, i, i + Len(pat) - 1) = pat

\* the rest of s from position i on
From(s, i) == SubSeq(s, i, Len(s))

RECURSIVE trim_start_bom(_)
\* txt.trim_start_matches('\u{feff}')
trim_start_bom(txt) ==
    IF txt # <<>> /\ Head(txt) = BOM THEN trim_start_bom(Tail(txt)) ELSE txt

\* control.replace_all(txt, "")
StripControl(txt) == SelectSeq(txt, LAMBDA ch : ch \notin ControlChars)

RECURSIVE StripLineCommentsOutsideStrings(_, _)
\* the line comments that begin outside string literals stripped; inside
\* tells whether the text begins within a string
StripLineCommentsOutsideStrings(txt, inside) ==
    IF txt = <<>> THEN <<>>
    ELSE IF ~inside /\ OccursAt(txt, 1, <<"/", "/">>)
    THEN LET ends == {i \in DOMAIN txt : txt[i] \in {LF, CR}}
         IN  IF ends = {} THEN <<>>
             ELSE StripLineCommentsOutsideStrings(
                      From(txt, CHOOSE i \in ends : \A j \in ends : i <= j), FALSE)
    ELSE <<Head(txt)>> \o StripLineCommentsOutsideStrings(
                              Tail(txt), IF Head(txt) = QUOTE THEN ~inside ELSE inside)

\* mutant of StripLineComments: the pattern is not applied inside strings
StripLineCommentsStringAware(txt) == StripLineCommentsOutsideStrings(txt, FALSE)

RECURSIVE StripLineComments(_)
\* line_comments.replace_all(txt, ""), the pattern being //[^\n\r]*: the
\* text before the leftmost match, and the rest after it stripped
StripLineComments(txt) ==
    LET starts == {i \in DOMAIN txt : OccursAt(txt, i, <<"/", "/">>)}
        ends == {k \in First(starts)..Len(txt) : txt[k] \in {LF, CR}}
    IN  IF starts = {} THEN txt
        ELSE SubSeq(txt, 1, First(starts) - 1)
                 \o (IF ends = {} THEN <<>> ELSE StripLineComments(From(txt, First(ends))))

RECURSIVE StripBlockComments(_)
\* block_comments.replace_all(txt, ""), the pattern being (?s)/\*.*?\*/
StripBlockComments(txt) ==
    LET closes(i) == {e \in (i + 2)..Len(txt) : OccursAt(txt, e, <<"*", "/">>)}
        starts == {i \in DOMAIN txt : OccursAt(txt, i, <<"/", "*">>) /\ closes(i) # {}}
    IN  IF starts = {} THEN txt
        ELSE SubSeq(txt, 1, First(starts) - 1)
                 \o StripBlockComments(From(txt, First(closes(First(starts))) + 2))

\* mutant of StripTrailingCommas: the commas are left
StripTrailingCommasLeaves(txt) == txt

RECURSIVE StripTrailingCommas(_)
\* trailing.replace_all(txt, "$1"), the pattern being ,\s*([}\]])
StripTrailingCommas(txt) ==
    LET solid(i) == {k \in (i + 1)..Len(txt) : txt[k] \notin RegexSpace}
        starts == {i \in DOMAIN txt : /\ txt[i] = ","
                                      /\ solid(i) # {}
                                      /\ txt[First(solid(i))] \in {"}", "]"}}
        bracket == First(solid(First(starts)))
    IN  IF starts = {} THEN txt
        ELSE SubSeq(txt, 1, First(starts) - 1) \o <<txt[bracket]>>
                 \o StripTrailingCommas(From(txt, bracket + 1))

RECURSIVE EscapeLoopNoEscape(_, _, _, _)
\* mutant of EscapeLoop: a backslash inside a string escapes nothing
EscapeLoopNoEscape(s, inside, esc, out) ==
    IF s = <<>> THEN out
    ELSE LET ch == Head(s)
         IN  IF inside
             THEN IF ch = QUOTE THEN EscapeLoopNoEscape(Tail(s), FALSE, esc, Append(out, ch))
                  ELSE IF ch = LF
                  THEN EscapeLoopNoEscape(Tail(s), TRUE, esc, out \o <<BACKSLASH, "n">>)
                  ELSE IF ch = CR THEN EscapeLoopNoEscape(Tail(s), TRUE, esc, out)
                  ELSE EscapeLoopNoEscape(Tail(s), TRUE, esc, Append(out, ch))
             ELSE IF ch = QUOTE THEN EscapeLoopNoEscape(Tail(s), TRUE, FALSE, Append(out, ch))
                  ELSE EscapeLoopNoEscape(Tail(s), FALSE, esc, Append(out, ch))

RECURSIVE EscapeLoop(_, _, _, _)
\* the loop of escape_raw_newlines over the characters s still to read
EscapeLoop(s, inside, esc, out) ==
    IF s = <<>> THEN out
    ELSE LET ch == Head(s)
         IN  CASE inside /\ esc -> EscapeLoop(Tail(s), TRUE, FALSE, Append(out, ch))
               [] inside /\ ~esc /\ ch = BACKSLASH ->
                      EscapeLoop(Tail(s), TRUE, TRUE, Append(out, ch))
               [] inside /\ ~esc /\ ch = QUOTE ->
                      EscapeLoop(Tail(s), FALSE, esc, Append(out, ch))
               [] inside /\ ~esc /\ ch = LF ->
                      EscapeLoop(Tail(s), TRUE, esc, out \o <<BACKSLASH, "n">>)
               [] inside /\ ~esc /\ ch = CR -> EscapeLoop(Tail(s), TRUE, esc, out)
               [] inside /\ ~esc /\ ch \notin {BACKSLASH, QUOTE, LF, CR} ->
                      EscapeLoop(Tail(s), TRUE, esc, Append(out, ch))
               [] ~inside /\ ch = QUOTE -> EscapeLoop(Tail(s), TRUE, FALSE, Append(out, ch))
               [] ~inside /\ ch # QUOTE -> EscapeLoop(Tail(s), FALSE, esc, Append(out, ch))

\* escape_raw_newlines
escape_raw_newlines(s) == EscapeLoop(s, FALSE, FALSE, <<>>)

\* the steps of sanitize_json before the string-aware pass (lines 37-53)
StripSteps(txt) ==
    StripTrailingCommas(StripBlockComments(StripLineComments(StripControl(
        trim_start_bom(txt)))))

\* sanitize_json
sanitize_json(txt) == escape_raw_newlines(StripSteps(txt))

(***************************************************************************)
(* serde_json::from_str::<Value> and the reads of read_meta_from_jar       *)
(*                                                                         *)
(* Outside string literals the texts of the model hold no digit, no minus  *)
(* sign, no bracket and none of the words true, false and null: a value is *)
(* a string or an object.  Inside string literals a backslash is followed  *)
(* by a quote, a backslash, a slash, n, r or t, or the text is no JSON (no *)
(* text of the model holds one of the escapes b, f and u).  A value is     *)
(* [t, s, m]: its type "str" or "obj", the characters of a string, the     *)
(* members <<key, value>> of an object in the order of the text.           *)
(***************************************************************************)
\* the whitespace of JSON
JsonSpace == {" ", TAB, LF, CR}

\* the characters that may not stand raw in a JSON string
JsonControl == {LF, CR, TAB, FF}

\* what the character after a backslash stands for
Unescaped(ch) ==
    IF ch = "n" THEN LF
    ELSE IF ch = "r" THEN CR
    ELSE IF ch = "t" THEN TAB
    ELSE ch

\* the first position of s from i on that holds no JSON whitespace, or the
\* position after the end
SkipSpace(s, i) ==
    LET solid == {k \in i..Len(s) : s[k] \notin JsonSpace}
    IN  IF solid = {} THEN Len(s) + 1 ELSE First(solid)

\* a parse that has failed
ParseError == [ok |-> FALSE, pos |-> 0, val |-> [t |-> "err", s |-> <<>>, m |-> <<>>]]

\* a parse that has read val and stands at pos
Parsed(pos, val) == [ok |-> TRUE, pos |-> pos, val |-> val]

StringValue(chars) == [t |-> "str", s |-> chars, m |-> <<>>]

ObjectValue(members) == [t |-> "obj", s |-> <<>>, m |-> members]

\* the backslashes of s that stand one after another and end at position k,
\* none of them before position i
BackslashRun(s, i, k) ==
    {b \in i..k : \A x \in b..k : s[x] = BACKSLASH}

\* position k of s holds a backslash that escapes the next character of a
\* string whose characters begin at position i
Escapes(s, i, k) == k >= i /\ s[k] = BACKSLASH /\ Cardinality(BackslashRun(s, i, k)) % 2 = 1

\* the string of s whose opening quote stands before position i: it ends at
\* the first quote not escaped, holds no raw control character, and no
\* backslash of it is followed by a character that cannot be escaped
ParseStringFrom(s, i, acc) ==
    LET closing == {q \in i..Len(s) : s[q] = QUOTE /\ ~Escapes(s, i, q - 1)}
        close == First(closing)
        kept == {k \in i..(close - 1) : ~Escapes(s, i, k)}
        nth(n) == CHOOSE k \in kept : Cardinality({x \in kept : x <= k}) = n
        char(k) == IF Escapes(s, i, k - 1) THEN Unescaped(s[k]) ELSE s[k]
    IN  IF closing = {} THEN ParseError
        ELSE IF \E k \in i..(close - 1) :
                    \/ s[k] \in JsonControl
                    \/ /\ Escapes(s, i, k - 1)
                       /\ s[k] \notin {QUOTE, BACKSLASH, "/", "n", "r", "t"}
        THEN ParseError
        ELSE Parsed(close + 1,
                    StringValue(acc \o [n \in 1..Cardinality(kept) |-> char(nth(n))]))

RECURSIVE ParseValue(_, _)
RECURSIVE ParseMembers(_, _, _)
\* the rest of the members of an object of s, the member of key k and of
\* value value being read
AfterValue(s, k, value, acc) ==
    IF ~value.ok THEN ParseError
    ELSE IF SkipSpace(s, value.pos) > Len(s) THEN ParseError
    ELSE IF s[SkipSpace(s, value.pos)] = ","
    THEN ParseMembers(s, SkipSpace(s, SkipSpace(s, value.pos) + 1),
                      Append(acc, <<k, value.val>>))
    ELSE IF s[SkipSpace(s, value.pos)] = "}"
    THEN Parsed(SkipSpace(s, value.pos) + 1, ObjectValue(Append(acc, <<k, value.val>>)))
    ELSE ParseError

\* the rest of the members of an object of s, the key key being read
AfterKey(s, key, acc) ==
    IF ~key.ok THEN ParseError
    ELSE IF SkipSpace(s, key.pos) > Len(s) \/ s[SkipSpace(s, key.pos)] # ":" THEN ParseError
    ELSE AfterValue(s, key.val.s,
                    ParseValue(s, SkipSpace(s, SkipSpace(s, key.pos) + 1)), acc)

\* the members of an object of s from position i on, where a key must
\* stand, acc being the members read so far
ParseMembers(s, i, acc) ==
    IF i > Len(s) \/ s[i] # QUOTE THEN ParseError
    ELSE AfterKey(s, ParseStringFrom(s, i + 1, <<>>), acc)

\* the value of s that begins at position i
ParseValue(s, i) ==
    IF i > Len(s) THEN ParseError
    ELSE IF s[i] = QUOTE THEN ParseStringFrom(s, i + 1, <<>>)
    ELSE IF s[i] = "{"
    THEN IF SkipSpace(s, i + 1) <= Len(s) /\ s[SkipSpace(s, i + 1)] = "}"
         THEN Parsed(SkipSpace(s, i + 1) + 1, ObjectValue(<<>>))
         ELSE ParseMembers(s, SkipSpace(s, i + 1), <<>>)
    ELSE ParseError

\* serde_json::from_str::<serde_json::Value>(s).ok(): one value, whitespace
\* around it and nothing else
from_str_value(s) ==
    LET value == ParseValue(s, SkipSpace(s, 1))
    IN  IF value.ok /\ SkipSpace(s, value.pos) = Len(s) + 1 THEN Some(value.val) ELSE None

\* Value::get(key): the member of an object, the last of its key
get(val, key) ==
    LET found == {k \in DOMAIN val.m : val.m[k][1] = key}
    IN  IF val.t = "obj" /\ found # {} THEN Some(val.m[Last(found)][2]) ELSE None

\* val.get(key).and_then(|v| v.as_str())
get_str(val, key) ==
    IF is_some(get(val, key)) /\ get(val, key)[1].t = "str"
    THEN Some(get(val, key)[1].s)
    ELSE None

ID_KEY == <<"i", "d">>

NAME_KEY == <<"n", "a", "m", "e">>

VERSION_KEY == <<"v", "e", "r", "s", "i", "o", "n">>

DEPENDS_KEY == <<"d", "e", "p", "e", "n", "d", "s">>

QUILT_LOADER_KEY == <<"q", "u", "i", "l", "t", "_", "l", "o", "a", "d", "e", "r">>

\* the strict parse of a sanitized text and the reads at lines 151-172
StrictParse(clean) ==
    LET parsed == from_str_value(clean)
    IN  IF parsed = None THEN None
        ELSE Some([id |-> get_str(parsed[1], ID_KEY),
                   name |-> get_str(parsed[1], NAME_KEY),
                   version |-> get_str(parsed[1], VERSION_KEY),
                   quilt_loader |->
                       /\ is_some(get(parsed[1], DEPENDS_KEY))
                       /\ is_some(get(get(parsed[1], DEPENDS_KEY)[1], QUILT_LOADER_KEY))])

\* the end of the match of "key"\s*:\s*"([^"]+)" that begins at position i
\* of txt, or 0 when there is none
GrabEnd(txt, key, i) ==
    LET after_key == i + Len(key) + 2
        gap(k) == LET solid == {j \in k..Len(txt) : txt[j] \notin RegexSpace}
                  IN  IF solid = {} THEN Len(txt) + 1 ELSE First(solid)
        colon == gap(after_key)
        open == gap(colon + 1)
        quotes == {j \in (open + 1)..Len(txt) : txt[j] = QUOTE}
    IN  IF /\ OccursAt(txt, i, <<QUOTE>> \o key \o <<QUOTE>>)
           /\ colon <= Len(txt) /\ txt[colon] = ":"
           /\ open <= Len(txt) /\ txt[open] = QUOTE
           /\ quotes # {} /\ First(quotes) > open + 1
        THEN First(quotes)
        ELSE 0

\* grab(key) of regex_fallback: the capture of the leftmost match
regex_grab(txt, key) ==
    LET starts == {i \in DOMAIN txt : GrabEnd(txt, key, i) > 0}
        i == First(starts)
        close == GrabEnd(txt, key, i)
        open == Last({j \in 1..(close - 1) : txt[j] = QUOTE})
    IN  IF starts = {} THEN None ELSE Some(SubSeq(txt, open + 1, close - 1))

\* the entry of an archive whose sanitized text is clean, as the reader
\* sees it
CleanEntry(clean) ==
        Some([readable |-> TRUE,
              strict |-> StrictParse(clean),
              grab |-> [id |-> regex_grab(clean, ID_KEY),
                        name |-> regex_grab(clean, NAME_KEY),
                        version |-> regex_grab(clean, VERSION_KEY)]])

(***************************************************************************)
(* read_meta_from_jar and regex_fallback                                   *)
(*                                                                         *)
(* An archive is [zip_ok, fabric, quilt]: whether it opens as a ZIP, and   *)
(* its two candidate entries.  An entry is None (absent) or Some of        *)
(* [readable, strict, grab]: whether its bytes can be read, the result of  *)
(* the strict parse of the sanitized text (None, or Some of the id, name   *)
(* and version strings found, each an Option, and whether depends holds    *)
(* quilt_loader), and what the three regular expressions of the fallback   *)
(* capture in the sanitized text (each an Option of a non-empty string).   *)
(***************************************************************************)
\* mutant of regex_fallback: all three fields must be found
regex_fallbackNeedsAll(grab) ==
    IF is_some(grab.id) /\ is_some(grab.name) /\ is_some(grab.version)
    THEN Some([id |-> grab.id[1], name |-> grab.name[1], version |-> grab.version[1]])
    ELSE None

\* regex_fallback
regex_fallback(grab) ==
    IF is_some(grab.id) \/ is_some(grab.name) \/ is_some(grab.version)
    THEN Some([id |-> unwrap_or(grab.id, <<>>),
               name |-> unwrap_or(grab.name, <<>>),
               version |-> unwrap_or(grab.version, <<>>)])
    ELSE None

\* one round of the loop over the candidates: Some(result) for a return,
\* None for a continue or for falling through to the next round
TryCandidate(entry) ==
    IF entry = None THEN None
    ELSE IF ~entry[1].readable THEN None
    ELSE IF is_some(entry[1].strict)
    THEN LET val == entry[1].strict[1]
         IN  Some([id |-> unwrap_or(val.id, <<>>),
                   name |-> unwrap_or(val.name, <<>>),
                   version |-> unwrap_or(val.version, UNKNOWN),
                   loader |-> IF val.quilt_loader THEN QUILT ELSE FABRIC])
    ELSE LET fb == regex_fallback(entry[1].grab)
         IN  IF is_some(fb)
             THEN Some([id |-> fb[1].id, name |-> fb[1].name,
                        version |-> fb[1].version, loader |-> FABRIC])
             ELSE None

\* mutant of read_meta_from_jar: the first entry that exists ends the search
read_meta_from_jarStopsAtFirst(jar) ==
    IF ~jar.zip_ok THEN None
    ELSE IF is_some(jar.fabric) THEN TryCandidate(jar.fabric)
    ELSE IF is_some(jar.quilt) THEN TryCandidate(jar.quilt)
    ELSE None

\* read_meta_from_jar: fabric.mod.json first, then quilt.mod.json
read_meta_from_jar(jar) ==
    IF ~jar.zip_ok THEN None
    ELSE IF is_some(TryCandidate(jar.fabric)) THEN TryCandidate(jar.fabric)
    ELSE IF is_some(TryCandidate(jar.quilt)) THEN TryCandidate(jar.quilt)
    ELSE None

(***************************************************************************)
(* scan_mods_directory                                                     *)
(*                                                                         *)
(* A directory is [path, exists, listable, files]: its path, whether it    *)
(* exists, whether read_dir succeeds, and the set of its entries           *)
(* [name, jar].  read_dir presents the entries in an order of its own      *)
(* (listing).                                                              *)
(***************************************************************************)
\* the orders in which read_dir may present the entries of d
Listings(d) ==
    IF ~d.listable THEN {<<>>}
    ELSE LET n == Cardinality(d.files)
         IN  {s \in [1..n -> d.files] : \A i, j \in 1..n : i # j => s[i] # s[j]}

\* the test on a file name at line 184
IsArchiveName(name) == ends_with(name, JAR_EXT) \/ ends_with(name, DISABLED_EXT)

\* slice::sort / sort_by (stable) of seq by the string keys keys[i] of seq[i]
StableSortBy(seq, keys) ==
    LET n == Len(seq)
        before(j, i) == StrLess(keys[j], keys[i]) \/ (keys[j] = keys[i] /\ j < i)
        rank(i) == Cardinality({j \in 1..n : before(j, i)}) + 1
    IN  [p \in 1..n |-> seq[CHOOSE i \in 1..n : rank(i) = p]]

\* mutant of ScanFile: a file without metadata is skipped
ScanFileSkipsFailed(acc, f) ==
    LET filename == f.name
        is_disabled == ends_with(filename, DISABLED_EXT)
        meta == read_meta_from_jar(f.jar)
    IN  IF is_some(meta)
        THEN LET stem == file_stem(filename)
                 mod_data ==
                     ModData(filename,
                             IF meta[1].id = <<>> THEN stem ELSE meta[1].id,
                             IF meta[1].name = <<>> THEN stem ELSE meta[1].name,
                             IF meta[1].version = <<>> THEN UNKNOWN ELSE meta[1].version,
                             meta[1].loader, is_disabled)
             IN  IF is_disabled
                 THEN [acc EXCEPT !.disabled = Append(@, mod_data)]
                 ELSE [acc EXCEPT !.active = Append(@, mod_data)]
        ELSE acc

\* body of the loop over all_files, lines 197-225
ScanFile(acc, f) ==
    LET filename == f.name
        is_disabled == ends_with(filename, DISABLED_EXT)
        meta == read_meta_from_jar(f.jar)
    IN  IF is_some(meta)
        THEN LET stem == file_stem(filename)
                 mod_data ==
                     ModData(filename,
                             IF meta[1].id = <<>> THEN stem ELSE meta[1].id,
                             IF meta[1].name = <<>> THEN stem ELSE meta[1].name,
                             IF meta[1].version = <<>> THEN UNKNOWN ELSE meta[1].version,
                             meta[1].loader, is_disabled)
             IN  IF is_disabled
                 THEN [acc EXCEPT !.disabled = Append(@, mod_data)]
                 ELSE [acc EXCEPT !.active = Append(@, mod_data)]
        ELSE [acc EXCEPT !.failed = Append(@, filename)]

RECURSIVE ScanLoop(_, _)
\* for jar in &all_files
ScanLoop(acc, files) ==
    IF files = <<>> THEN acc
    ELSE ScanLoop(ScanFile(acc, Head(files)), Tail(files))

\* mutant of scan_mods_directory: the entries of the directory are taken
\* whether or not read_dir succeeds
scan_mods_directoryIgnoresError(d, listing, now) ==
    LET entries == CHOOSE l \in [1..Cardinality(d.files) -> d.files] :
                       \A i, j \in DOMAIN l : i # j => l[i] # l[j]
        listed == SelectSeq(IF d.listable THEN listing ELSE entries,
                            LAMBDA f : IsArchiveName(f.name))
        all_files == StableSortBy(listed, [i \in DOMAIN listed |-> listed[i].name])
        lists == ScanLoop([active |-> <<>>, disabled |-> <<>>, failed |-> <<>>], all_files)
    IN  Snapshot(now, d.path, lists.active, lists.disabled, lists.failed,
                 SnapshotStats(Len(all_files), Len(lists.active),
                               Len(lists.disabled), Len(lists.failed)))

\* mutant of scan_mods_directory: all_files is left in the order of read_dir
scan_mods_directoryUnsorted(d, listing, now) ==
    LET listed == IF d.listable THEN SelectSeq(listing, LAMBDA f : IsArchiveName(f.name))
                  ELSE <<>>
        all_files == listed
        lists == ScanLoop([active |-> <<>>, disabled |-> <<>>, failed |-> <<>>], all_files)
    IN  Snapshot(now, d.path, lists.active, lists.disabled, lists.failed,
                 SnapshotStats(Len(all_files), Len(lists.active),
                               Len(lists.disabled), Len(lists.failed)))

\* scan_mods_directory(mods_dir) at the instant now, read_dir presenting the
\* entries in the order listing
scan_mods_directory(d, listing, now) ==
    LET listed == IF d.listable THEN SelectSeq(listing, LAMBDA f : IsArchiveName(f.name))
                  ELSE <<>>
        all_files == StableSortBy(listed, [i \in DOMAIN listed |-> listed[i].name])
        lists == ScanLoop([active |-> <<>>, disabled |-> <<>>, failed |-> <<>>], all_files)
    IN  Snapshot(now, d.path, lists.active, lists.disabled, lists.failed,
                 SnapshotStats(Len(all_files), Len(lists.active),
                               Len(lists.disabled), Len(lists.failed)))

(***************************************************************************)
(* Naming helpers: slugify, normalize_edition, build_display_name,         *)
(* build_file_prefix                                                       *)
(***************************************************************************)
FULL == <<"F", "u", "l", "l">>

LITE == <<"L", "i", "t", "e">>

PACK == <<"p", "a", "c", "k">>

AGONIA == <<"A", "g", "o", "n", "i", "a">>

\* the indices of s that satisfy keep, ascending
KeptIndices(s, keep(_)) == SelectSeq([i \in 1..Len(s) |-> i], keep)

\* Regex \s+ replaced by "-": every run of whitespace becomes one hyphen
ReplaceSpaceRuns(s) ==
    LET idx == KeptIndices(s, LAMBDA i : ~IsSpace(s[i]) \/ i = 1 \/ ~IsSpace(s[i - 1]))
    IN  [k \in 1..Len(idx) |-> IF IsSpace(s[idx[k]]) THEN "-" ELSE s[idx[k]]]

\* Regex [^a-z0-9._\-] replaced by "": every other character is removed
StripNonSlug(s) ==
    SelectSeq(s, LAMBDA c : c \in LowerCase \cup Digit \cup {".", "_", "-"})

\* Regex -{2,} replaced by "-": every run of hyphens becomes one hyphen
CollapseHyphens(s) ==
    LET idx == KeptIndices(s, LAMBDA i : s[i] # "-" \/ i = 1 \/ s[i - 1] # "-")
    IN  [k \in 1..Len(idx) |-> s[idx[k]]]

\* mutant of slugify: no trim and no collapse of hyphen runs
slugifyPlain(s) ==
    LET slug == StripNonSlug(ReplaceSpaceRuns(to_lowercase(s)))
    IN  IF slug = <<>> THEN PACK ELSE slug

\* slugify
slugify(s) ==
    LET slug == CollapseHyphens(StripNonSlug(ReplaceSpaceRuns(to_lowercase(trim(s)))))
    IN  IF slug = <<>> THEN PACK ELSE slug

\* mutant of normalize_edition: the synonyms are not recognized
normalize_editionNoSynonyms(edition) ==
    LET e == trim(edition)
        lower == to_lowercase(e)
    IN  IF e = <<>> THEN FULL
        ELSE IF lower = <<"f", "u", "l", "l">> THEN FULL
        ELSE IF lower = <<"l", "i", "t", "e">> THEN LITE
        ELSE edition

\* normalize_edition
normalize_edition(edition) ==
    LET e == trim(edition)
        lower == to_lowercase(e)
    IN  IF e = <<>> THEN FULL
        ELSE IF lower \in { <<"f", "u", "l", "l">>, <<"n", "o", "r", "m", "a", "l">>,
                            <<"d", "e", "f", "a", "u", "l", "t">> }
        THEN FULL
        ELSE IF lower \in { <<"l", "i", "t", "e">>, <<"l", "i", "g", "h", "t">>,
                            <<"m", "i", "n", "i", "m", "a", "l">> }
        THEN LITE
        ELSE edition

\* build_display_name
build_display_name(base_name, edition, pack_version) ==
    LET base == IF trim(base_name) = <<>> THEN AGONIA ELSE trim(base_name)
        ed == normalize_edition(edition)
        ver == trim(pack_version)
    IN  IF to_lowercase(ed) = <<"f", "u", "l", "l">>
        THEN trim(base \o <<" ">> \o ver)
        ELSE trim(base \o <<" ">> \o ed \o <<" ">> \o ver)

\* build_file_prefix
build_file_prefix(base_name, edition, pack_version) ==
    LET base == slugify(base_name)
        ed == slugify(normalize_edition(edition))
        ver == IF trim(pack_version) = <<>> THEN UNKNOWN ELSE slugify(pack_version)
    IN  base \o <<"-">> \o ver \o <<"-">> \o ed

(***************************************************************************)
(* generate_markdown                                                       *)
(*                                                                         *)
(* The report is the sequence of its lines; a line is a tuple of the kind  *)
(* of the line and the values formatted into it.                           *)
(***************************************************************************)
\* mutant of SortByName: the names are compared as they are
SortByNameCaseSensitive(list) ==
    StableSortBy(list, [i \in DOMAIN list |-> list[i].name])

\* sorted.sort_by(|a, b| a.name.to_lowercase().cmp(&b.name.to_lowercase()))
SortByName(list) ==
    StableSortBy(list, [i \in DOMAIN list |-> to_lowercase(list[i].name)])

\* the lines "* `name` vversion" of a list of records
ModLines(list) == [i \in DOMAIN list |-> <<"mod", list[i].name, list[i].version>>]

\* mutant of ModSection: the heading is written for an empty list too
ModSectionAlways(kind, list, note) ==
    << <<"heading", kind, Len(list)>> >> \o note
        \o ModLines(SortByName(list)) \o << <<"empty">> >>

\* a section of records: heading with the count, an optional note, the
\* records sorted by name, and an empty line; nothing when the list is empty
ModSection(kind, list, note) ==
    IF list = <<>> THEN <<>>
    ELSE << <<"heading", kind, Len(list)>> >> \o note
            \o ModLines(SortByName(list)) \o << <<"empty">> >>

\* generate_markdown(display_name, changes, new_snapshot, old_snapshot), the
\* report being generated at the instant now
generate_markdown(display_name, ch, new_snapshot, old_snapshot, now) ==
    LET stats == new_snapshot.stats
        head == << <<"title", display_name>>, <<"date", now>>,
                   <<"totals", stats.active, stats.disabled, stats.failed>> >>
        compared == IF is_some(old_snapshot)
                    THEN << <<"compared", old_snapshot[1].timestamp>> >>
                    ELSE <<>>
        sortedUpdated == SortByName(ch.updated)
        updated == IF ch.updated = <<>> THEN <<>>
                   ELSE << <<"heading", "updated", Len(ch.updated)>> >>
                        \o [i \in DOMAIN sortedUpdated |->
                               <<"update", sortedUpdated[i].name,
                                 sortedUpdated[i].new_version,
                                 sortedUpdated[i].old_version>>]
                        \o << <<"empty">> >>
        disabledNow == IF new_snapshot.disabled = <<>> THEN <<>>
                       ELSE << <<"rule">> >>
                            \o ModSection("disabled", new_snapshot.disabled, <<>>)
        sortedFailed == StableSortBy(new_snapshot.failed, new_snapshot.failed)
        failed == IF new_snapshot.failed = <<>> THEN <<>>
                  ELSE << <<"rule">>, <<"heading", "failed", Len(new_snapshot.failed)>> >>
                       \o [i \in DOMAIN sortedFailed |-> <<"unreadable", sortedFailed[i]>>]
                       \o << <<"empty">> >>
    IN  head \o compared \o << <<"rule">> >>
        \o ModSection("added", ch.added, <<>>)
        \o updated
        \o ModSection("removed", ch.removed, <<>>)
        \o ModSection("newly_disabled", ch.newly_disabled, << <<"reason">> >>)
        \o ModSection("newly_enabled", ch.newly_enabled, <<>>)
        \o disabledNow
        \o failed
        \o << <<"rule">>, <<"recommendation">>,
              <<"summary", Len(ch.unchanged), total_changes(ch)>> >>

(***************************************************************************)
(* Inputs of the scanner: directories over a small pool of file names and  *)
(* archives                                                                *)
(***************************************************************************)
ScanNames ==
    { <<"a">> \o JAR_EXT, <<"B">> \o JAR_EXT, <<"a">> \o DISABLED_EXT,
      <<"B">> \o DISABLED_EXT, <<"n", ".", "t", "x", "t">> }

NoGrab == [id |-> None, name |-> None, version |-> None]

\* an entry whose text parses strictly
StrictEntry(id, name, version, quilt_loader) ==
    Some([readable |-> TRUE,
          strict |-> Some([id |-> id, name |-> name, version |-> version,
                           quilt_loader |-> quilt_loader]),
          grab |-> [id |-> IF id = Some(<<>>) THEN None ELSE id,
                    name |-> IF name = Some(<<>>) THEN None ELSE name,
                    version |-> IF version = Some(<<>>) THEN None ELSE version]])

\* an entry whose text does not parse strictly
MalformedEntry(grab) == Some([readable |-> TRUE, strict |-> None, grab |-> grab])

\* a fabric descriptor with all three fields
JarM1 ==
    [zip_ok |-> TRUE,
     fabric |-> StrictEntry(Some(<<"m">>), Some(<<"M">>), Some(<<"1">>), FALSE),
     quilt |-> None]

\* the next version of the same mod
JarM2 ==
    [zip_ok |-> TRUE,
     fabric |-> StrictEntry(Some(<<"m">>), Some(<<"M">>), Some(<<"2">>), FALSE),
     quilt |-> None]

\* a fabric descriptor without id and version and with an empty name
JarBare ==
    [zip_ok |-> TRUE,
     fabric |-> StrictEntry(None, Some(<<>>), None, FALSE),
     quilt |-> None]

\* not a ZIP archive
JarNotZip == [zip_ok |-> FALSE, fabric |-> None, quilt |-> None]

\* a malformed fabric descriptor in which only the name is found
JarNameOnly ==
    [zip_ok |-> TRUE,
     fabric |-> MalformedEntry([id |-> None, name |-> Some(<<"Z">>), version |-> None]),
     quilt |-> None]

\* a fabric descriptor in which nothing is found, and a quilt descriptor
JarQuilt ==
    [zip_ok |-> TRUE,
     fabric |-> MalformedEntry(NoGrab),
     quilt |-> StrictEntry(Some(<<"m">>), Some(<<"c">>), Some(<<"2">>), TRUE)]

\* a ZIP archive with neither descriptor
JarNoDescriptor == [zip_ok |-> TRUE, fabric |-> None, quilt |-> None]

\* the archives the entries of a scanned directory are drawn from
ScanJars == {JarM1, JarBare, JarNotZip, JarNameOnly, JarQuilt}

\* a directory that does not exist
MissingDir == [path |-> MODS_DIR, exists |-> FALSE, listable |-> FALSE, files |-> {}]

\* a directory that holds an archive and cannot be listed
UnreadableDir ==
    [path |-> MODS_DIR, exists |-> TRUE, listable |-> FALSE,
     files |-> {[name |-> <<"a">> \o JAR_EXT, jar |-> JarM1]}]

\* the directories of at most n entries: missing, unreadable, or listed
Directories(n) ==
    { MissingDir, UnreadableDir } \cup
    { [path |-> MODS_DIR, exists |-> TRUE, listable |-> TRUE,
       files |-> {[name |-> nm, jar |-> jars[nm]] : nm \in names}] :
        <<names, jars>> \in
            UNION { {<<ns, js>> : js \in [ns -> ScanJars]} :
                    ns \in {x \in SUBSET ScanNames : Cardinality(x) <= n} } }

(***************************************************************************)
(* Inputs of the diff: snapshots over a small pool of records              *)
(***************************************************************************)
\* active records: two versions of mod a, a differently named and packaged
\* mod of the same id and version, a second mod b, and a third mod c whose
\* name differs from that of mod a only in case
ActivePool ==
    { ModData(<<"a", "1">> \o JAR_EXT, <<"a">>, <<"A">>, <<"1">>, FABRIC, FALSE),
      ModData(<<"a", "2">> \o JAR_EXT, <<"a">>, <<"A">>, <<"2">>, FABRIC, FALSE),
      ModData(<<"x">> \o JAR_EXT, <<"a">>, <<"a">>, <<"1">>, QUILT, FALSE),
      ModData(<<"b">> \o JAR_EXT, <<"b">>, <<"B">>, <<"1">>, FABRIC, FALSE),
      ModData(<<"c">> \o JAR_EXT, <<"c">>, <<"a">>, <<"2">>, FABRIC, FALSE) }

\* the same archives renamed to their disabled form
DisabledPool ==
    { [m EXCEPT !.filename = file_stem(m.filename) \o DISABLED_EXT,
                !.disabled = TRUE] : m \in ActivePool }

\* lists of at most n different records of S, in any order
ListsOf(S, n) ==
    UNION { {s \in [1..k -> S] : \A i, j \in 1..k : i # j => s[i] # s[j]} : k \in 0..n }

\* a snapshot as scan_mods_directory assembles it from its three lists
MkSnapshot(timestamp, active, disabled, failed) ==
    Snapshot(timestamp, MODS_DIR, active, disabled, failed,
             SnapshotStats(Len(active) + Len(disabled) + Len(failed),
                           Len(active), Len(disabled), Len(failed)))

DiffSnapshots(timestamp) ==
    { MkSnapshot(timestamp, a, d, <<>>) :
        <<a, d>> \in { p \in ListsOf(ActivePool, MaxMods) \X ListsOf(DisabledPool, MaxMods) :
                        Len(p[1]) + Len(p[2]) <= MaxMods } }

(***************************************************************************)
(* Specification of the diff: compare_snapshots applied to any two         *)
(* snapshots (as compare_history applies it to two snapshot files)         *)
(***************************************************************************)
ScanIdle ==
    /\ dir = MissingDir
    /\ snap = None
    /\ spc = "idle"
    /\ reader = None

AppIdle ==
    /\ app = None
    /\ workers = <<>>
    /\ chan = <<>>
    /\ fs = None
    /\ clock = 0
    /\ naming = None

DiffInit ==
    /\ ScanIdle
    /\ AppIdle
    /\ old \in DiffSnapshots(1)
    /\ new \in DiffSnapshots(2) \cup {old}
    /\ changes = ChangesDefault
    /\ dpc = "ready"
    /\ md = <<>>

Compare ==
    /\ dpc = "ready"
    /\ \E ordNew \in KeyOrders(IdMap(new.active)), ordOld \in KeyOrders(IdMap(old.active)) :
          changes' = compare_snapshots(old, new, ordNew, ordOld)
    /\ dpc' = "done"
    /\ UNCHANGED <<old, new, md>>
    /\ UNCHANGED <<scanVars, appVars, naming>>

\* the name the reports of the diff are generated under
REPORT_NAME == build_display_name(AGONIA, FULL, <<"1">>)

\* the instant at which the reports of the diff are generated
REPORT_TIME == 3

\* generate_markdown applied to the changes, the new snapshot and the old
\* snapshot if there is one
Report ==
    /\ dpc \in {"done", "given"}
    /\ md' = generate_markdown(REPORT_NAME, changes, new,
                               IF old = None THEN None ELSE Some(old), REPORT_TIME)
    /\ dpc' = "reported"
    /\ UNCHANGED <<old, new, changes>>
    /\ UNCHANGED <<scanVars, appVars, naming>>

DiffNext == Compare \/ Report

SpecDiff == DiffInit /\ [][DiffNext]_vars

(***************************************************************************)
(* Specification of the report: generate_markdown applied to any changes,  *)
(* any new snapshot and any or no old snapshot                             *)
(***************************************************************************)
\* the records of the buckets: names A, a and B
ReportRecords == {m \in ActivePool : m.version = <<"1">>}

\* the records of the updated bucket
ReportUpdated ==
    {UpdatedMod(m.id, m.name, m.version, <<"2">>, m.filename) : m \in ReportRecords}

\* the records of the disabled list of the new snapshot
ReportDisabled == {m \in DisabledPool : m.version = <<"1">>}

\* the file names of the failed list of the new snapshot
ReportFailed == {<<"a">> \o JAR_EXT, <<"B">> \o JAR_EXT}

\* an entry put into one of the lists that generate_markdown reads
Placements ==
    ({"added", "removed", "newly_disabled", "newly_enabled", "unchanged"} \X ReportRecords)
        \cup ({"updated"} \X ReportUpdated)
        \cup ({"disabled"} \X ReportDisabled)
        \cup ({"failed"} \X ReportFailed)

\* no entry in any list
NoEntries ==
    [added |-> <<>>, removed |-> <<>>, updated |-> <<>>, newly_disabled |-> <<>>,
     newly_enabled |-> <<>>, unchanged |-> <<>>, disabled |-> <<>>, failed |-> <<>>]

RECURSIVE Placed(_, _)
\* the lists after the entries of seq have been appended in turn
Placed(lists, seq) ==
    IF seq = <<>> THEN lists
    ELSE Placed([lists EXCEPT ![Head(seq)[1]] = Append(@, Head(seq)[2])], Tail(seq))

ReportInit ==
    /\ ScanIdle
    /\ AppIdle
    /\ \E k \in 0..MaxMods : \E seq \in [1..k -> Placements] :
          LET lists == Placed(NoEntries, seq)
          IN  /\ changes = [added |-> lists.added, removed |-> lists.removed,
                            updated |-> lists.updated,
                            newly_disabled |-> lists.newly_disabled,
                            newly_enabled |-> lists.newly_enabled,
                            unchanged |-> lists.unchanged]
              /\ new = MkSnapshot(2, lists.added \o lists.unchanged, lists.disabled,
                                  lists.failed)
    /\ old \in {None, MkSnapshot(1, <<>>, <<>>, <<>>)}
    /\ dpc = "given"
    /\ md = <<>>

ReportNext == Report

SpecReport == ReportInit /\ [][ReportNext]_vars

(***************************************************************************)
(* Specification of the scanner: scan_mods_directory applied to any        *)
(* directory                                                               *)
(***************************************************************************)
DiffIdle ==
    /\ old = None
    /\ new = None
    /\ changes = ChangesDefault
    /\ dpc = "idle"
    /\ md = <<>>

ScanInit ==
    /\ DiffIdle
    /\ AppIdle
    /\ dir \in Directories(MaxFiles)
    /\ snap = None
    /\ spc = "ready"
    /\ reader = None

Scan ==
    /\ spc = "ready"
    /\ \E listing \in Listings(dir) : snap' = Some(scan_mods_directory(dir, listing, 1))
    /\ spc' = "done"
    /\ UNCHANGED <<dir, reader>>
    /\ UNCHANGED <<diffVars, appVars, naming>>

ScanNext == Scan

SpecScan == ScanInit /\ [][ScanNext]_vars

(***************************************************************************)
(* Specification of the sanitizer: escape_raw_newlines and sanitize_json   *)
(* applied to any text, and the read of the sanitized text                 *)
(***************************************************************************)
\* the texts of at most n characters of chars
TextsOver(chars, n) == UNION {[1..k -> chars] : k \in 0..n}

\* the characters that drive escape_raw_newlines, and a letter
EscapeChars == {QUOTE, BACKSLASH, LF, CR, "a"}

\* the characters that drive the regular expressions of sanitize_json
StripChars == {QUOTE, "/", "*", LF, ",", "}"}

\* the text of a key or of a string value, in quotes
Quoted(chars) == <<QUOTE>> \o chars \o <<QUOTE>>

\* the bodies of the line comments of the documents: empty, a letter, a
\* quote, the opening and the closing of a block comment, a comma
LineCommentBodies == {<<>>, <<"x">>, <<QUOTE>>, <<"/", "*">>, <<"*", "/">>, <<",">>}

\* the bodies of the block comments of the documents: empty, a letter, the
\* opening of a line comment, a quote, a line break, a comma, a slash
BlockCommentBodies == {<<>>, <<"x">>, <<"/", "/">>, <<QUOTE>>, <<LF>>, <<",">>, <<"/">>}

\* the places of a comment in a document: after the opening brace, after
\* the first and the second comma, before and after the closing brace
Gaps == 1..5

\* the documents of the model: the line break brk written raw in a string
\* value, the whitespace ws after the trailing comma, the body lc and the
\* gap lg of the line comment, the body bc and the gap bg of the block
\* comment, and whether the line comment comes first in a gap they share
DocumentShapes ==
    [brk : {<<LF>>, <<CR, LF>>}, ws : {<<>>, <<" ">>, <<LF>>},
     lc : LineCommentBodies, lg : Gaps, bc : BlockCommentBodies, bg : Gaps,
     line_first : BOOLEAN]

\* the document {"id":"a","name":"c\nd","version":"e"} of a descriptor with
\* a trailing comma, a line comment, a block comment and a raw line break
\* in the name, as the shape d places them
Document(d) ==
    LET line == <<"/", "/">> \o d.lc \o <<LF>>
        block == <<"/", "*">> \o d.bc \o <<"*", "/">>
        gap(g) == IF d.line_first
                  THEN (IF d.lg = g THEN line ELSE <<>>) \o (IF d.bg = g THEN block ELSE <<>>)
                  ELSE (IF d.bg = g THEN block ELSE <<>>) \o (IF d.lg = g THEN line ELSE <<>>)
    IN  <<"{">> \o gap(1)
            \o Quoted(ID_KEY) \o <<":">> \o Quoted(<<"a">>) \o <<",">> \o gap(2)
            \o Quoted(NAME_KEY) \o <<":">> \o Quoted(<<"c">> \o d.brk \o <<"d">>) \o <<",">>
            \o gap(3)
            \o Quoted(VERSION_KEY) \o <<":">> \o Quoted(<<"e">>) \o <<",">> \o d.ws \o gap(4)
            \o <<"}">> \o gap(5)

\* the texts given to the sanitizer
SanitizerTexts == TextsOver(EscapeChars, MaxText) \cup TextsOver(StripChars, MaxText)

\* the sanitizer before it is given the text txt, of shape doc when the
\* text is a document
GivenText(txt, doc) ==
    [pc |-> "ready", txt |-> txt, doc |-> doc, control |-> <<>>, line |-> <<>>,
     block |-> <<>>, clean |-> <<>>, result |-> None]

SanitizeInit ==
    /\ DiffIdle
    /\ AppIdle
    /\ dir = MissingDir
    /\ snap = None
    /\ spc = "idle"
    /\ reader \in {GivenText(txt, None) : txt \in SanitizerTexts}

\* escape_raw_newlines(txt)
EscapeRawNewlines ==
    /\ reader.pc = "ready"
    /\ reader' = [reader EXCEPT !.clean = escape_raw_newlines(reader.txt), !.pc = "escaped"]
    /\ UNCHANGED <<dir, snap, spc, diffVars, appVars, naming>>

\* sanitize_json(txt), line 148, with the values its local txt takes after
\* the control characters, the line comments and the block comments are
\* stripped
SanitizeJson ==
    /\ reader.pc = "ready"
    /\ LET control == StripControl(trim_start_bom(reader.txt))
           line == StripLineComments(control)
           block == StripBlockComments(line)
       IN  reader' = [reader EXCEPT !.control = control,
                                    !.line = line,
                                    !.block = block,
                                    !.clean = sanitize_json(reader.txt),
                                    !.pc = "clean"]
    /\ UNCHANGED <<dir, snap, spc, diffVars, appVars, naming>>

SanitizeNext == EscapeRawNewlines \/ SanitizeJson

SpecSanitize == SanitizeInit /\ [][SanitizeNext]_vars

(***************************************************************************)
(* Specification of the read of one entry: sanitize_json, the strict parse *)
(* and the fallback applied to the documents                               *)
(***************************************************************************)
EntryInit ==
    /\ DiffIdle
    /\ AppIdle
    /\ dir = MissingDir
    /\ snap = None
    /\ spc = "idle"
    /\ reader \in {GivenText(Document(d), Some(d)) : d \in DocumentShapes}

\* read_meta_from_jar, lines 150-172: the strict parse of the sanitized text
\* of an entry and the fallback
ReadEntry ==
    /\ reader.pc = "clean"
    /\ reader' = [reader EXCEPT !.result = TryCandidate(CleanEntry(reader.clean)),
                                !.pc = "read"]
    /\ UNCHANGED <<dir, snap, spc, diffVars, appVars, naming>>

EntryNext == SanitizeJson \/ ReadEntry

SpecEntry == EntryInit /\ [][EntryNext]_vars

(***************************************************************************)
(* Specification of the metadata reader: read_meta_from_jar applied to any *)
(* archive                                                                 *)
(*                                                                         *)
(* An archive file is [zip_ok, fabric, quilt], an entry being None or Some *)
(* of [readable, txt]: whether read_to_end succeeds, and the text.         *)
(***************************************************************************)
\* "key":"value"
Member(key, value) == Quoted(key) \o <<":">> \o Quoted(value)

\* the texts of the entries: a descriptor with id, name and version; one
\* with an id and the quilt loader among its dependencies; an empty object;
\* a string; a descriptor cut short after its id; one cut short after its
\* version, written with spaces; a text without any field; an empty text
EntryTexts ==
    { <<"{">> \o Member(ID_KEY, <<"a">>) \o <<",">> \o Member(NAME_KEY, <<"c">>) \o <<",">>
          \o Member(VERSION_KEY, <<"e">>) \o <<"}">>,
      <<"{">> \o Member(ID_KEY, <<"q">>) \o <<",">> \o Quoted(DEPENDS_KEY) \o <<":", "{">>
          \o Member(QUILT_LOADER_KEY, <<"*">>) \o <<"}", "}">>,
      <<"{", "}">>,
      Quoted(<<"s">>),
      <<"{">> \o Member(ID_KEY, <<"a">>) \o <<",">>,
      <<"{">> \o Quoted(VERSION_KEY) \o <<" ", ":", LF>> \o Quoted(<<"e">>),
      <<"{", "x">>,
      <<>> }

\* the entries an archive may hold under one name
JarEntries ==
    {None, Some([readable |-> FALSE, txt |-> <<>>])}
        \cup {Some([readable |-> TRUE, txt |-> t]) : t \in EntryTexts}

\* the files given to the reader: no ZIP archive, or an archive with any
\* two entries
JarFiles ==
    {[zip_ok |-> FALSE, fabric |-> None, quilt |-> None]}
        \cup [zip_ok : {TRUE}, fabric : JarEntries, quilt : JarEntries]

\* the entry of an archive file as the loop of the reader sees it
SeenEntry(e) ==
    IF e = None THEN None
    ELSE Some([CleanEntry(sanitize_json(e[1].txt))[1] EXCEPT !.readable = e[1].readable])

\* the archive file as the reader sees it
SeenJar(file) ==
    [zip_ok |-> file.zip_ok, fabric |-> SeenEntry(file.fabric), quilt |-> SeenEntry(file.quilt)]

JarInit ==
    /\ DiffIdle
    /\ AppIdle
    /\ dir = MissingDir
    /\ snap = None
    /\ spc = "idle"
    /\ reader \in [pc : {"ready"}, jar : JarFiles, result : {None}]

\* read_meta_from_jar(jar)
ReadMeta ==
    /\ reader.pc = "ready"
    /\ reader' = [reader EXCEPT !.result = read_meta_from_jar(SeenJar(reader.jar)),
                                !.pc = "read"]
    /\ UNCHANGED <<dir, snap, spc, diffVars, appVars, naming>>

JarNext == ReadMeta

SpecJar == JarInit /\ [][JarNext]_vars

(***************************************************************************)
(* Specification of the naming helpers: build_file_prefix and              *)
(* build_display_name applied to any base name, edition and version        *)
(***************************************************************************)
\* base names: plain, empty, with outer and inner runs of spaces, with a
\* hyphen after a space, without any character of a slug, with an underscore
NameBases ==
    { <<"M", "y", " ", "P", "a", "c", "k">>,
      <<>>,
      <<" ", "a", " ", " ", "B", " ">>,
      <<"a", " ", "-", "b">>,
      <<"!", "/">>,
      <<"A", "_", "b">> }

\* editions: the two of the application, empty, synonyms in either case,
\* an unknown edition, a known one with spaces around it
NameEditions ==
    { <<"L", "i", "t", "e">>,
      <<>>,
      <<"F", "u", "l", "l">>,
      <<"l", "i", "g", "h", "t">>,
      <<"N", "O", "R", "M", "A", "L">>,
      <<"B", "e", "t", "a", " ", "x">>,
      <<"d", "e", "f", "a", "u", "l", "t">>,
      <<"m", "i", "n", "i", "m", "a", "l">>,
      <<" ", "l", "i", "t", "e", " ">> }

\* versions: plain, empty, blank, with a space, without any character of a
\* slug
NameVersions ==
    { <<"1", ".", "2", ".", "3">>,
      <<>>,
      <<" ">>,
      <<"v", " ", "1">>,
      <<"!", "!">> }

NameInit ==
    /\ DiffIdle
    /\ ScanIdle
    /\ app = None
    /\ workers = <<>>
    /\ chan = <<>>
    /\ fs = None
    /\ clock = 0
    /\ naming \in [pc : {"ready"}, base_name : NameBases, edition : NameEditions,
                    pack_version : NameVersions, prefix : {<<>>}, display : {<<>>}]

\* build_file_prefix and build_display_name, as main.rs:712-713 and
\* main.rs:658-659 call them
BuildNames ==
    /\ naming.pc = "ready"
    /\ naming' = [naming EXCEPT
           !.prefix = build_file_prefix(naming.base_name, naming.edition,
                                        naming.pack_version),
           !.display = build_display_name(naming.base_name, naming.edition,
                                          naming.pack_version),
           !.pc = "done"]
    /\ UNCHANGED <<diffVars, scanVars, appVars>>

NameNext == BuildNames

SpecName == NameInit /\ [][NameNext]_vars

\* the contents the mods directory of the application takes: missing; one
\* mod and a file that is no archive; the next version of the mod, a second
\* archive declaring the same id, and a disabled mod
AppDirs ==
    { MissingDir,
      [path |-> MODS_DIR, exists |-> TRUE, listable |-> TRUE,
       files |-> {[name |-> <<"a">> \o JAR_EXT, jar |-> JarM1],
                  [name |-> <<"x">> \o JAR_EXT, jar |-> JarNotZip]}],
      [path |-> MODS_DIR, exists |-> TRUE, listable |-> TRUE,
       files |-> {[name |-> <<"a">> \o JAR_EXT, jar |-> JarM2],
                  [name |-> <<"B">> \o JAR_EXT, jar |-> JarM1],
                  [name |-> <<"n">> \o DISABLED_EXT, jar |-> JarNameOnly]}] }

\* a directory with one mod and a disabled archive declaring the same id
SharedIdDir ==
    [path |-> MODS_DIR, exists |-> TRUE, listable |-> TRUE,
     files |-> {[name |-> <<"a">> \o JAR_EXT, jar |-> JarM1],
                [name |-> <<"x">> \o DISABLED_EXT, jar |-> JarM2]}]

\* the contents of the mods directory of a session in which they stay as
\* they are
LiveDirs == AppDirs \cup {SharedIdDir}

(***************************************************************************)
(* The application (main.rs): start_scan, the scan thread, and the poll    *)
(* at the head of App::update                                              *)
(*                                                                         *)
(* The text fields mods_dir, base_name and pack_version keep their         *)
(* values; the edition, the force_new box and the tab are set by the user. *)
(* A file is [kind |-> "missing"], [kind |-> "unreadable"] (it exists and  *)
(* cannot be read), [kind |-> "garbage"] (text that is no snapshot), or    *)
(* [kind |-> "json" or "text", value |-> ...].                             *)
(***************************************************************************)
\* const EDITIONS
EDITIONS == <<FULL, LITE>>

\* App::new: base_name
BASE_NAME == AGONIA

\* App::new: the default pack_version
PACK_VERSION == <<"2", "6", ".", "1", ".", "0">>

NoFile == [kind |-> "missing"]

UnreadableFile == [kind |-> "unreadable"]

GarbageFile == [kind |-> "garbage"]

\* Path::exists
exists(file) == file.kind # "missing"

\* std::fs::read_to_string(path).ok()
read_to_string(file) ==
    IF file.kind \in {"missing", "unreadable"} THEN None ELSE Some(file)

\* serde_json::to_string_pretty(&snapshot): the JSON document, field by field
to_string_pretty(sn) ==
    LET mod(m) == [filename |-> m.filename, id |-> m.id, name |-> m.name,
                   version |-> m.version, loader |-> m.loader, disabled |-> m.disabled]
    IN  [kind |-> "json",
         value |-> [timestamp |-> sn.timestamp,
                    mods_dir |-> sn.mods_dir,
                    active |-> [i \in DOMAIN sn.active |-> mod(sn.active[i])],
                    disabled |-> [i \in DOMAIN sn.disabled |-> mod(sn.disabled[i])],
                    failed |-> sn.failed,
                    stats |-> [total |-> sn.stats.total, active |-> sn.stats.active,
                               disabled |-> sn.stats.disabled, failed |-> sn.stats.failed]]]

\* mutant of from_str: the disabled list is not read
from_strWithoutDisabled(txt) ==
    IF txt.kind # "json" THEN None
    ELSE LET v == txt.value
             mod(m) == ModData(m.filename, m.id, m.name, m.version, m.loader, m.disabled)
         IN  Some(Snapshot(v.timestamp, v.mods_dir,
                           [i \in DOMAIN v.active |-> mod(v.active[i])],
                           <<>>,
                           v.failed,
                           SnapshotStats(v.stats.total, v.stats.active,
                                         v.stats.disabled, v.stats.failed)))

\* serde_json::from_str::<Snapshot>(&txt).ok()
from_str(txt) ==
    IF txt.kind # "json" THEN None
    ELSE LET v == txt.value
             mod(m) == ModData(m.filename, m.id, m.name, m.version, m.loader, m.disabled)
         IN  Some(Snapshot(v.timestamp, v.mods_dir,
                           [i \in DOMAIN v.active |-> mod(v.active[i])],
                           [i \in DOMAIN v.disabled |-> mod(v.disabled[i])],
                           v.failed,
                           SnapshotStats(v.stats.total, v.stats.active,
                                         v.stats.disabled, v.stats.failed)))

\* what std::fs::write(path, content) may leave at path: the content, the
\* file as it was (it could not be opened), or a truncated file
WriteOutcomes(file, content) == {content, file, GarbageFile}

\* the prefixes of the snapshot and changelog files
Prefixes == {build_file_prefix(BASE_NAME, EDITIONS[i], PACK_VERSION) : i \in DOMAIN EDITIONS}

\* find_snapshot_history: the snapshot files in the order listing, newest
\* timestamp first, an unreadable one ("?") before all
find_snapshot_history(files, listing) ==
    LET entry(p) == [filename |-> p,
                     timestamp |-> IF is_some(read_to_string(files[p]))
                                      /\ is_some(from_str(read_to_string(files[p])[1]))
                                   THEN Some(from_str(read_to_string(files[p])[1])[1].timestamp)
                                   ELSE None]
        entries == [i \in DOMAIN listing |-> entry(listing[i])]
        n == Len(entries)
        newer(a, b) == /\ is_some(b.timestamp)
                       /\ (a.timestamp = None \/ a.timestamp[1] > b.timestamp[1])
        before(j, i) == newer(entries[j], entries[i])
                            \/ (entries[j].timestamp = entries[i].timestamp /\ j < i)
        rank(i) == Cardinality({j \in 1..n : before(j, i)}) + 1
    IN  [k \in 1..n |-> entries[CHOOSE i \in 1..n : rank(i) = k]]

\* the orders in which read_dir may present the snapshot files
HistoryListings(files) ==
    LET present == {q \in DOMAIN files : exists(files[q])}
        n == Cardinality(present)
    IN  {l \in [1..n -> present] : \A i, j \in 1..n : i # j => l[i] # l[j]}

\* the checkbox at line 652
ToggleForceNew ==
    /\ app' = [app EXCEPT !.force_new = ~@]
    /\ UNCHANGED <<workers, chan, fs, clock, diffVars, scanVars, naming>>

\* the edition box at lines 625-632; the edition of a session is chosen
\* before its first scan
SelectEdition ==
    /\ workers = <<>>
    /\ \E i \in 0..(Len(EDITIONS) - 1) :
          /\ i # app.edition_index
          /\ app' = [app EXCEPT !.edition_index = i]
    /\ UNCHANGED <<workers, chan, fs, clock, diffVars, scanVars, naming>>

\* mutant of StartScan: the button is enabled while a scan is running
StartScanWhileScanning ==
    /\ fs.mods.exists
    /\ Len(workers) < MaxScans
    /\ workers' = Append(workers,
            [pc |-> "scan",
             edition |-> EDITIONS[app.edition_index + 1],
             force_new |-> app.force_new,
             new_snapshot |-> None,
             old_snapshot |-> None,
             changes |-> None,
             markdown |-> None])
    /\ chan' = Append(chan, <<>>)
    /\ app' = [app EXCEPT !.scan_rx = Some(Len(workers) + 1),
                          !.scanning = TRUE,
                          !.status = <<"scanning">>]
    /\ UNCHANGED <<fs, clock, diffVars, scanVars, naming>>

\* the scan button (lines 666-676) and start_scan up to the spawn
StartScan ==
    /\ fs.mods.exists
    /\ ~app.scanning
    /\ Len(workers) < MaxScans
    /\ workers' = Append(workers,
            [pc |-> "scan",
             edition |-> EDITIONS[app.edition_index + 1],
             force_new |-> app.force_new,
             new_snapshot |-> None,
             old_snapshot |-> None,
             changes |-> None,
             markdown |-> None])
    /\ chan' = Append(chan, <<>>)
    /\ app' = [app EXCEPT !.scan_rx = Some(Len(workers) + 1),
                          !.scanning = TRUE,
                          !.status = <<"scanning">>]
    /\ UNCHANGED <<fs, clock, diffVars, scanVars, naming>>

\* the names start_scan builds (lines 712-713), for each edition
ScanNamesOf ==
    [e \in {EDITIONS[i] : i \in DOMAIN EDITIONS} |->
        [prefix |-> build_file_prefix(BASE_NAME, e, PACK_VERSION),
         display_name |-> build_display_name(BASE_NAME, e, PACK_VERSION)]]

\* scan_mods_directory on each directory of the model, for each order in
\* which read_dir may list it
ScansOf ==
    UNION { { [dir |-> d, listing |-> l, snapshot |-> scan_mods_directory(d, l, 0)] :
                l \in Listings(d) } : d \in LiveDirs }

\* scan_mods_directory(d) at the instant now: only the timestamp depends on
\* the instant
ScanAt(d, listing, now) ==
    [(CHOOSE s \in ScansOf : s.dir = d /\ s.listing = listing).snapshot
        EXCEPT !.timestamp = now]

\* the thread: scan_mods_directory (line 719)
WorkerScan(w) ==
    /\ workers[w].pc = "scan"
    /\ \E listing \in Listings(fs.mods) :
          workers' = [workers EXCEPT
              ![w].new_snapshot = Some(ScanAt(fs.mods, listing, clock)),
              ![w].pc = "load"]
    /\ clock' = clock + 1
    /\ UNCHANGED <<app, chan, fs, diffVars, scanVars, naming>>

\* the baseline a scan thread loads (lines 721-727)
LoadBaseline(file, force_new) ==
    IF exists(file) /\ ~force_new
    THEN IF is_some(read_to_string(file)) THEN from_str(read_to_string(file)[1]) ELSE None
    ELSE None

\* mutant of WorkerLoad: the thread writes its snapshot to the path before
\* it reads the baseline from it
WorkerLoadAfterWrite(w) ==
    /\ workers[w].pc = "load"
    /\ LET prefix == ScanNamesOf[workers[w].edition].prefix
       IN  /\ fs' = [fs EXCEPT !.snapshot[prefix] =
                                    to_string_pretty(workers[w].new_snapshot[1])]
           /\ workers' = [workers EXCEPT
                  ![w].old_snapshot = LoadBaseline(fs'.snapshot[prefix], workers[w].force_new),
                  ![w].pc = "diff"]
    /\ UNCHANGED <<app, chan, clock, diffVars, scanVars, naming>>

\* the thread: the old snapshot (lines 721-727)
WorkerLoad(w) ==
    /\ workers[w].pc = "load"
    /\ LET prefix == ScanNamesOf[workers[w].edition].prefix
       IN  workers' = [workers EXCEPT
               ![w].old_snapshot = LoadBaseline(fs.snapshot[prefix], workers[w].force_new),
               ![w].pc = "diff"]
    /\ UNCHANGED <<app, chan, fs, clock, diffVars, scanVars, naming>>

\* mutant of FirstScanChanges: the scan is compared with an empty snapshot
FirstScanChangesByDiff(new_snapshot) ==
    compare_snapshots(MkSnapshot(0, <<>>, <<>>, <<>>), new_snapshot,
                      CHOOSE o \in KeyOrders(IdMap(new_snapshot.active)) : TRUE, <<>>)

\* Changes { added: new_snapshot.active.clone(), ..Changes::default() }
FirstScanChanges(new_snapshot) ==
    [ChangesDefault EXCEPT !.added = new_snapshot.active]

\* the thread: the changes (lines 729-736)
WorkerDiff(w) ==
    /\ workers[w].pc = "diff"
    /\ LET new_snapshot == workers[w].new_snapshot[1]
           old_snapshot == workers[w].old_snapshot
       IN  IF is_some(old_snapshot)
           THEN \E ordNew \in KeyOrders(IdMap(new_snapshot.active)),
                   ordOld \in KeyOrders(IdMap(old_snapshot[1].active)) :
                   workers' = [workers EXCEPT
                       ![w].changes = Some(compare_snapshots(old_snapshot[1], new_snapshot,
                                                             ordNew, ordOld)),
                       ![w].pc = "report"]
           ELSE workers' = [workers EXCEPT
                    ![w].changes = Some(FirstScanChanges(new_snapshot)),
                    ![w].pc = "report"]
    /\ UNCHANGED <<app, chan, fs, clock, diffVars, scanVars, naming>>

\* mutant of WorkerReport: the thread never gets past the report
WorkerReportNeverEnds(w) ==
    /\ workers[w].pc = "report"
    /\ workers' = [workers EXCEPT
           ![w].markdown = Some(generate_markdown(
               ScanNamesOf[workers[w].edition].display_name,
               workers[w].changes[1], workers[w].new_snapshot[1],
               workers[w].old_snapshot, clock))]
    /\ UNCHANGED <<app, chan, fs, clock, diffVars, scanVars, naming>>

\* the thread: generate_markdown (lines 738-744)
WorkerReport(w) ==
    /\ workers[w].pc = "report"
    /\ workers' = [workers EXCEPT
           ![w].markdown = Some(generate_markdown(
               ScanNamesOf[workers[w].edition].display_name,
               workers[w].changes[1], workers[w].new_snapshot[1],
               workers[w].old_snapshot, clock)),
           ![w].pc = "send"]
    /\ UNCHANGED <<app, chan, fs, clock, diffVars, scanVars, naming>>

\* a thread that has returned: its locals are gone
Finished ==
    [pc |-> "done", edition |-> <<>>, force_new |-> FALSE, new_snapshot |-> None,
     old_snapshot |-> None, changes |-> None, markdown |-> None]

\* mutant of WorkerSend: the result is sent twice
WorkerSendTwice(w) ==
    /\ workers[w].pc = "send"
    /\ LET prefix == ScanNamesOf[workers[w].edition].prefix
           result == [snapshot |-> workers[w].new_snapshot[1],
                      old_snapshot |-> workers[w].old_snapshot,
                      changes |-> workers[w].changes[1],
                      markdown |-> workers[w].markdown[1],
                      snapshot_path |-> prefix,
                      md_path |-> prefix]
       IN  chan' = IF app.scan_rx = Some(w)
                   THEN [chan EXCEPT ![w] = Append(Append(@, result), result)]
                   ELSE chan
    /\ workers' = [workers EXCEPT ![w] = Finished]
    /\ UNCHANGED <<app, fs, clock, diffVars, scanVars, naming>>

\* the thread: tx.send (lines 746-753); the send fails, and is ignored, when
\* the receiver has been dropped
WorkerSend(w) ==
    /\ workers[w].pc = "send"
    /\ LET prefix == ScanNamesOf[workers[w].edition].prefix
           result == [snapshot |-> workers[w].new_snapshot[1],
                      old_snapshot |-> workers[w].old_snapshot,
                      changes |-> workers[w].changes[1],
                      markdown |-> workers[w].markdown[1],
                      snapshot_path |-> prefix,
                      md_path |-> prefix]
       IN  chan' = IF app.scan_rx = Some(w)
                   THEN [chan EXCEPT ![w] = Append(@, result)]
                   ELSE chan
    /\ workers' = [workers EXCEPT ![w] = Finished]
    /\ UNCHANGED <<app, fs, clock, diffVars, scanVars, naming>>

\* mutant of Update: the receiver is kept when the result has been taken
UpdateKeepsReceiver ==
    IF is_some(app.scan_rx) /\ chan[app.scan_rx[1]] # <<>>
    THEN LET w == app.scan_rx[1]
             result == Head(chan[w])
         IN  /\ chan' = [chan EXCEPT ![w] = Tail(@)]
             /\ \E snapshot_file \in WriteOutcomes(fs.snapshot[result.snapshot_path],
                                                    to_string_pretty(result.snapshot)),
                   md_file \in WriteOutcomes(fs.changelog[result.md_path],
                                              [kind |-> "text", value |-> result.markdown]) :
                   /\ fs' = [fs EXCEPT !.snapshot[result.snapshot_path] = snapshot_file,
                                       !.changelog[result.md_path] = md_file]
                   /\ \E listing \in HistoryListings(fs'.snapshot) :
                         app' = [app EXCEPT
                             !.status = <<"scan_done", result.snapshot.stats.active,
                                          result.snapshot.stats.disabled,
                                          result.snapshot.stats.failed,
                                          total_changes(result.changes)>>,
                             !.markdown = result.markdown,
                             !.old_snapshot = result.old_snapshot,
                             !.changes = Some(result.changes),
                             !.snapshot = Some(result.snapshot),
                             !.scan_done = TRUE,
                             !.scanning = FALSE,
                             !.tab = "Results",
                             !.history = find_snapshot_history(fs'.snapshot, listing)]
             /\ UNCHANGED <<workers, clock, diffVars, scanVars, naming>>
    ELSE UNCHANGED vars

\* mutant of Update: a failed write of the snapshot or the report leaves the
\* application in an error state, the result not stored
UpdateStopsOnWriteError ==
    IF is_some(app.scan_rx) /\ chan[app.scan_rx[1]] # <<>>
    THEN LET w == app.scan_rx[1]
             result == Head(chan[w])
             json == to_string_pretty(result.snapshot)
             text == [kind |-> "text", value |-> result.markdown]
         IN  /\ chan' = [chan EXCEPT ![w] = Tail(@)]
             /\ \E snapshot_file \in WriteOutcomes(fs.snapshot[result.snapshot_path], json),
                   md_file \in WriteOutcomes(fs.changelog[result.md_path], text) :
                   /\ fs' = [fs EXCEPT !.snapshot[result.snapshot_path] = snapshot_file,
                                       !.changelog[result.md_path] = md_file]
                   /\ \E listing \in HistoryListings(fs'.snapshot) :
                         app' = IF snapshot_file = json /\ md_file = text
                                THEN [app EXCEPT
                                        !.status = <<"scan_done", result.snapshot.stats.active,
                                                     result.snapshot.stats.disabled,
                                                     result.snapshot.stats.failed,
                                                     total_changes(result.changes)>>,
                                        !.markdown = result.markdown,
                                        !.old_snapshot = result.old_snapshot,
                                        !.changes = Some(result.changes),
                                        !.snapshot = Some(result.snapshot),
                                        !.scan_done = TRUE,
                                        !.scanning = FALSE,
                                        !.scan_rx = None,
                                        !.tab = "Results",
                                        !.history = find_snapshot_history(fs'.snapshot, listing)]
                                ELSE [app EXCEPT
                                        !.status = <<"error">>,
                                        !.scanning = FALSE,
                                        !.scan_rx = None]
             /\ UNCHANGED <<workers, clock, diffVars, scanVars, naming>>
    ELSE UNCHANGED vars

\* App::update, lines 468-496: the poll of scan_rx
Update ==
    IF is_some(app.scan_rx) /\ chan[app.scan_rx[1]] # <<>>
    THEN LET w == app.scan_rx[1]
             result == Head(chan[w])
         IN  /\ chan' = [chan EXCEPT ![w] = Tail(@)]
             /\ \E snapshot_file \in WriteOutcomes(fs.snapshot[result.snapshot_path],
                                                    to_string_pretty(result.snapshot)),
                   md_file \in WriteOutcomes(fs.changelog[result.md_path],
                                              [kind |-> "text", value |-> result.markdown]) :
                   /\ fs' = [fs EXCEPT !.snapshot[result.snapshot_path] = snapshot_file,
                                       !.changelog[result.md_path] = md_file]
                   /\ \E listing \in HistoryListings(fs'.snapshot) :
                         app' = [app EXCEPT
                             !.status = <<"scan_done", result.snapshot.stats.active,
                                          result.snapshot.stats.disabled,
                                          result.snapshot.stats.failed,
                                          total_changes(result.changes)>>,
                             !.markdown = result.markdown,
                             !.old_snapshot = result.old_snapshot,
                             !.changes = Some(result.changes),
                             !.snapshot = Some(result.snapshot),
                             !.scan_done = TRUE,
                             !.scanning = FALSE,
                             !.scan_rx = None,
                             !.tab = "Results",
                             !.history = find_snapshot_history(fs'.snapshot, listing)]
             /\ UNCHANGED <<workers, clock, diffVars, scanVars, naming>>
    ELSE UNCHANGED vars

\* the user changes the contents of the mods directory
EnvChangeMods ==
    /\ \E d \in AppDirs : d # fs.mods /\ fs' = [fs EXCEPT !.mods = d]
    /\ UNCHANGED <<app, workers, chan, clock, diffVars, scanVars, naming>>

\* a snapshot file is made unreadable outside the application
EnvLockSnapshot ==
    /\ \E p \in Prefixes :
          /\ fs.snapshot[p].kind \in {"json", "garbage"}
          /\ fs' = [fs EXCEPT !.snapshot[p] = UnreadableFile]
    /\ UNCHANGED <<app, workers, chan, clock, diffVars, scanVars, naming>>

\* App::new, and the files as the first run finds them, the mods directory
\* being one of dirs
AppStart(dirs) ==
    /\ DiffIdle
    /\ ScanIdle
    /\ app = [force_new |-> FALSE,
              edition_index |-> 0,
              scan_rx |-> None,
              scanning |-> FALSE,
              tab |-> "Settings",
              snapshot |-> None,
              old_snapshot |-> None,
              changes |-> None,
              markdown |-> <<>>,
              status |-> <<>>,
              scan_done |-> FALSE,
              history |-> <<>>]
    /\ workers = <<>>
    /\ chan = <<>>
    /\ fs \in [mods : dirs,
                snapshot : [Prefixes -> {NoFile}],
                changelog : [Prefixes -> {NoFile}]]
    /\ clock = 1
    /\ naming = None

AppInit == AppStart(AppDirs)

Next ==
    \/ ToggleForceNew
    \/ SelectEdition
    \/ StartScan
    \/ \E w \in DOMAIN workers : WorkerScan(w)
    \/ \E w \in DOMAIN workers : WorkerLoad(w)
    \/ \E w \in DOMAIN workers : WorkerDiff(w)
    \/ \E w \in DOMAIN workers : WorkerReport(w)
    \/ \E w \in DOMAIN workers : WorkerSend(w)
    \/ Update
    \/ EnvChangeMods
    \/ EnvLockSnapshot

Spec == AppInit /\ [][Next]_vars

(***************************************************************************)
(* The application with its scheduling: the scan thread, once spawned,     *)
(* keeps running until it returns, and update keeps being called (it asks  *)
(* for a repaint while scanning is set).  The thread may also end by a     *)
(* panic, which unwinds the closure and drops the sender with it.  The     *)
(* contents of the mods directory stay as the session found them.          *)
(***************************************************************************)
\* the thread panics: the closure of thread::spawn is unwound, tx is
\* dropped and nothing is sent
WorkerPanic(w) ==
    /\ workers[w].pc \in {"scan", "load", "diff", "report", "send"}
    /\ workers' = [workers EXCEPT ![w] = Finished]
    /\ UNCHANGED <<app, chan, fs, clock, diffVars, scanVars, naming>>

\* a step of the scan thread w
WorkerStep(w) ==
    \/ WorkerScan(w)
    \/ WorkerLoad(w)
    \/ WorkerDiff(w)
    \/ WorkerReport(w)
    \/ WorkerSend(w)

LiveNext ==
    \/ ToggleForceNew
    \/ SelectEdition
    \/ StartScan
    \/ \E w \in DOMAIN workers : WorkerStep(w)
    \/ \E w \in DOMAIN workers : WorkerPanic(w)
    \/ Update
    \/ EnvLockSnapshot

LiveInit == AppStart(LiveDirs)

SpecLive ==
    /\ LiveInit
    /\ [][LiveNext]_vars
    /\ WF_vars(\E w \in DOMAIN workers : WorkerStep(w))
    /\ WF_vars(Update)

(***************************************************************************)
(* Claims about compare_snapshots (specification SpecDiff)                 *)
(***************************************************************************)
\* the record of id that the lookup of a list holds: the last one in the list
LastWithId(list, id) ==
    list[Last({k \in DOMAIN list : list[k].id = id})]

\* how often id occurs in a bucket
CountIn(bucket, id) == Cardinality({k \in DOMAIN bucket : bucket[k].id = id})

\* how often id occurs in the six buckets together
Occurrences(ch, id) ==
    CountIn(ch.added, id) + CountIn(ch.removed, id) + CountIn(ch.updated, id)
        + CountIn(ch.newly_disabled, id) + CountIn(ch.newly_enabled, id)
        + CountIn(ch.unchanged, id)

\* the entries of a bucket that carry id
EntriesOf(bucket, id) == {bucket[k] : k \in {j \in DOMAIN bucket : bucket[j].id = id}}

\* every id of the four lists
InputIds ==
    IdsOf(old.active) \cup IdsOf(old.disabled) \cup IdsOf(new.active) \cup IdsOf(new.disabled)

\* how often record r occurs in a list
Copies(list, r) == Cardinality({k \in DOMAIN list : list[k] = r})

SameMultiset(l1, l2) ==
    \A r \in {l1[k] : k \in DOMAIN l1} \cup {l2[k] : k \in DOMAIN l2} :
        Copies(l1, r) = Copies(l2, r)

DistinctIds(list) ==
    \A i, j \in DOMAIN list : i # j => list[i].id # list[j].id

\* C1 (as claimed): every id of old.active or new.active occurs exactly once
\* in the six buckets together, whatever the disabled lists hold.
C1_Partition ==
    dpc = "done" =>
        \A id \in IdsOf(old.active) \cup IdsOf(new.active) : Occurrences(changes, id) = 1

\* C2 (as claimed): the diff of any snapshot against itself has five empty
\* change buckets and an unchanged bucket holding the records of s.active.
C2_SelfDiffAnySnapshot ==
    (dpc = "done" /\ old = new) =>
        /\ total_changes(changes) = 0
        /\ SameMultiset(changes.unchanged, new.active)

\* C2 (amended): the diff of a snapshot against itself has five empty change
\* buckets and an unchanged bucket holding exactly the records of s.active,
\* when the ids of s.active are pairwise distinct and none of them is the id
\* of a record of s.disabled.
C2_SelfDiff ==
    (/\ dpc = "done"
     /\ old = new
     /\ DistinctIds(new.active)
     /\ IdsOf(new.active) \cap IdsOf(new.disabled) = {}) =>
        /\ changes.added = <<>>
        /\ changes.removed = <<>>
        /\ changes.updated = <<>>
        /\ changes.newly_disabled = <<>>
        /\ changes.newly_enabled = <<>>
        /\ SameMultiset(changes.unchanged, new.active)

C2_Witness ==
    /\ dpc = "done"
    /\ old = new
    /\ DistinctIds(new.active)
    /\ IdsOf(new.active) \cap IdsOf(new.disabled) = {}
    /\ Len(new.active) = 2
    /\ Len(changes.unchanged) = 2

\* C4: an id of new.active that is in old.disabled is in newly_enabled, once,
\* with the new active record, whether or not it is in old.active, and is in
\* none of added, updated and unchanged.
C4_NewlyEnabled ==
    dpc = "done" =>
        \A id \in IdsOf(new.active) \cap IdsOf(old.disabled) :
            /\ CountIn(changes.newly_enabled, id) = 1
            /\ EntriesOf(changes.newly_enabled, id) = {LastWithId(new.active, id)}
            /\ CountIn(changes.added, id) = 0
            /\ CountIn(changes.updated, id) = 0
            /\ CountIn(changes.unchanged, id) = 0

C4_Witness ==
    /\ dpc = "done"
    /\ \E id \in IdsOf(new.active) \cap IdsOf(old.disabled) \cap IdsOf(old.active) :
          CountIn(changes.newly_enabled, id) = 1

\* C5: an id is in added exactly when it is in new.active and in neither
\* old.active nor old.disabled, and the record added is the new active one.
C5_Added ==
    dpc = "done" =>
        \A id \in InputIds :
            /\ CountIn(changes.added, id) > 0
                  <=> (/\ id \in IdsOf(new.active)
                       /\ id \notin IdsOf(old.active)
                       /\ id \notin IdsOf(old.disabled))
            /\ CountIn(changes.added, id) > 0
                  => EntriesOf(changes.added, id) = {LastWithId(new.active, id)}
            /\ CountIn(changes.added, id) <= 1

C5_Witness ==
    /\ dpc = "done"
    /\ \E id \in IdsOf(new.active) : CountIn(changes.added, id) = 1
    /\ \E id \in IdsOf(new.active) \cap IdsOf(old.disabled) : CountIn(changes.added, id) = 0

\* C6: an id of new.active and old.active that is not in old.disabled is in
\* updated (old and new version, the new record's name and filename) exactly
\* when the two versions differ, and in unchanged exactly when they are equal,
\* whatever the other fields are.
C6_UpdatedOrUnchanged ==
    dpc = "done" =>
        \A id \in (IdsOf(new.active) \cap IdsOf(old.active)) \ IdsOf(old.disabled) :
            LET n == LastWithId(new.active, id)
                o == LastWithId(old.active, id)
            IN  IF n.version # o.version
                THEN /\ changes.updated # <<>>
                     /\ EntriesOf(changes.updated, id)
                            = {UpdatedMod(id, n.name, o.version, n.version, n.filename)}
                     /\ CountIn(changes.updated, id) = 1
                     /\ CountIn(changes.unchanged, id) = 0
                ELSE /\ EntriesOf(changes.unchanged, id) = {n}
                     /\ CountIn(changes.unchanged, id) = 1
                     /\ CountIn(changes.updated, id) = 0

C6_Witness ==
    /\ dpc = "done"
    /\ \E id \in (IdsOf(new.active) \cap IdsOf(old.active)) \ IdsOf(old.disabled) :
          LET n == LastWithId(new.active, id)
              o == LastWithId(old.active, id)
          IN  /\ n.version = o.version
              /\ n.name # o.name
              /\ n.filename # o.filename
              /\ n.loader # o.loader
              /\ CountIn(changes.unchanged, id) = 1

\* C7: an id is in removed exactly when it is in old.active and in neither
\* new.active nor new.disabled, and the record removed is the old active one.
C7_Removed ==
    dpc = "done" =>
        \A id \in InputIds :
            /\ CountIn(changes.removed, id) > 0
                  <=> (/\ id \in IdsOf(old.active)
                       /\ id \notin IdsOf(new.active)
                       /\ id \notin IdsOf(new.disabled))
            /\ CountIn(changes.removed, id) > 0
                  => EntriesOf(changes.removed, id) = {LastWithId(old.active, id)}
            /\ CountIn(changes.removed, id) <= 1

C7_Witness ==
    /\ dpc = "done"
    /\ \E id \in IdsOf(old.active) : CountIn(changes.removed, id) = 1
    /\ \E id \in IdsOf(old.active) \cap IdsOf(new.disabled) : CountIn(changes.removed, id) = 0

\* C8 (as claimed): an id is in newly_disabled exactly when it is in
\* old.active, not in new.active and in new.disabled, and the record reported
\* is the new snapshot's disabled record.
C8_NewlyDisabled ==
    dpc = "done" =>
        \A id \in InputIds :
            /\ CountIn(changes.newly_disabled, id) > 0
                  <=> (/\ id \in IdsOf(old.active)
                       /\ id \notin IdsOf(new.active)
                       /\ id \in IdsOf(new.disabled))
            /\ CountIn(changes.newly_disabled, id) > 0
                  => EntriesOf(changes.newly_disabled, id) = {LastWithId(new.disabled, id)}

\* C9: an id that is in neither old.active nor new.active is in none of the
\* six buckets.
C9_NotClassified ==
    dpc = "done" =>
        \A id \in InputIds \ (IdsOf(old.active) \cup IdsOf(new.active)) :
            Occurrences(changes, id) = 0

C9_Witness ==
    /\ dpc = "done"
    /\ \E id \in (IdsOf(old.disabled) \cap IdsOf(new.disabled))
                    \ (IdsOf(old.active) \cup IdsOf(new.active)) :
          Occurrences(changes, id) = 0
    /\ total_changes(changes) > 0

(***************************************************************************)
(* Claims about scan_mods_directory (specification SpecScan)               *)
(***************************************************************************)
\* the file names of the archive files of the directory scanned
ListedNames ==
    IF dir.listable THEN {f.name : f \in {g \in dir.files : IsArchiveName(g.name)}} ELSE {}

\* how often a file name occurs in the three lists of a snapshot
Entries(sn, name) ==
    Cardinality({k \in DOMAIN sn.active : sn.active[k].filename = name})
        + Cardinality({k \in DOMAIN sn.disabled : sn.disabled[k].filename = name})
        + Cardinality({k \in DOMAIN sn.failed : sn.failed[k] = name})

\* C10: in a snapshot returned by scan_mods_directory, total is the sum of
\* active, disabled and failed, these three are the lengths of the three
\* lists, and every archive file listed has exactly one entry in exactly one
\* of the lists (a file without metadata in failed).
C10_Stats ==
    spc = "done" =>
        LET sn == snap[1]
        IN  /\ sn.stats.total = sn.stats.active + sn.stats.disabled + sn.stats.failed
            /\ sn.stats.active = Len(sn.active)
            /\ sn.stats.disabled = Len(sn.disabled)
            /\ sn.stats.failed = Len(sn.failed)
            /\ sn.stats.total = Cardinality(ListedNames)
            /\ \A name \in ListedNames : Entries(sn, name) = 1
            /\ \A f \in dir.files :
                   (dir.listable /\ IsArchiveName(f.name) /\ read_meta_from_jar(f.jar) = None)
                       => \E k \in DOMAIN sn.failed : sn.failed[k] = f.name

C10_Witness ==
    /\ spc = "done"
    /\ Len(snap[1].active) = 1
    /\ Len(snap[1].disabled) = 1
    /\ Len(snap[1].failed) = 1
    /\ snap[1].stats.total = 3
    /\ Cardinality(dir.files) = 3

\* the records of list are in strictly ascending order of filename
SortedByFilename(list) ==
    \A i, j \in DOMAIN list : i < j => StrLess(list[i].filename, list[j].filename)

\* C11: in a snapshot returned by scan_mods_directory the active list and
\* the disabled list are each in ascending case-sensitive order of
\* filename, and whatever the order in which read_dir lists the directory
\* the scan returns the same active list, disabled list and stats.
C11_SortedScan ==
    spc = "done" =>
        LET sn == snap[1]
        IN  /\ SortedByFilename(sn.active)
            /\ SortedByFilename(sn.disabled)
            /\ \A listing \in Listings(dir) :
                   LET again == scan_mods_directory(dir, listing, 2)
                   IN  /\ again.active = sn.active
                       /\ again.disabled = sn.disabled
                       /\ again.stats = sn.stats

\* two active files, B.jar before a.jar, and a disabled file
C11_Witness ==
    /\ spc = "done"
    /\ Len(snap[1].active) = 2
    /\ snap[1].active[1].filename = <<"B">> \o JAR_EXT
    /\ snap[1].active[2].filename = <<"a">> \o JAR_EXT
    /\ Len(snap[1].disabled) = 1

\* a file name with its archive extension, .jar or .jar.disabled, removed
WithoutArchiveExt(filename) ==
    IF ends_with(filename, DISABLED_EXT)
    THEN SubSeq(filename, 1, Len(filename) - Len(DISABLED_EXT))
    ELSE SubSeq(filename, 1, Len(filename) - Len(JAR_EXT))

\* the record the claim describes for the file f of the directory
DescribedRecord(f) ==
    LET meta == read_meta_from_jar(f.jar)[1]
        stem == WithoutArchiveExt(f.name)
    IN  ModData(f.name,
                IF meta.id = <<>> THEN stem ELSE meta.id,
                IF meta.name = <<>> THEN stem ELSE meta.name,
                IF meta.version = <<>> THEN UNKNOWN ELSE meta.version,
                meta.loader,
                ends_with(f.name, DISABLED_EXT))

\* C12: every record of a snapshot returned by scan_mods_directory has
\* non-empty id, name and version; an empty id or name is the file name
\* without its archive extension (the same for X.jar and X.jar.disabled),
\* an empty version is "unknown"; the disabled flag is true exactly when
\* the file name ends with .jar.disabled, and the record is in the disabled
\* list exactly when the flag is true.
C12_Records ==
    spc = "done" =>
        LET sn == snap[1]
            file(r) == CHOOSE f \in dir.files : f.name = r.filename
            good(r) == /\ r.id # <<>> /\ r.name # <<>> /\ r.version # <<>>
                       /\ r = DescribedRecord(file(r))
        IN  /\ \A k \in DOMAIN sn.active : good(sn.active[k]) /\ ~sn.active[k].disabled
            /\ \A k \in DOMAIN sn.disabled : good(sn.disabled[k]) /\ sn.disabled[k].disabled

\* C13: the scan of a directory that cannot be listed, because it is
\* missing or unreadable, returns a snapshot with empty active, disabled
\* and failed lists and with the four stats 0.
C13_Unlistable ==
    (spc = "done" /\ ~dir.listable) =>
        /\ snap # None
        /\ snap[1].active = <<>>
        /\ snap[1].disabled = <<>>
        /\ snap[1].failed = <<>>
        /\ snap[1].stats = SnapshotStats(0, 0, 0, 0)

\* an unreadable directory that holds an archive has been scanned
C13_Witness ==
    /\ spc = "done"
    /\ dir.exists
    /\ ~dir.listable
    /\ dir.files # {}
    /\ snap[1].stats.total = 0

(***************************************************************************)
(* Claims about generate_markdown (specifications SpecReport and SpecDiff) *)
(***************************************************************************)
\* the sections of the report, in the order of the code
SectionOrder ==
    <<"added", "updated", "removed", "newly_disabled", "newly_enabled", "disabled", "failed">>

\* the collection a section is written from
Collection(kind) ==
    IF kind = "disabled" THEN new.disabled
    ELSE IF kind = "failed" THEN new.failed
    ELSE changes[kind]

\* the kinds of line that stand for one entry of a collection
EntryKinds == {"mod", "update", "unreadable"}

\* the positions of the lines of the report of the given kinds
LinesOf(kinds) == {i \in DOMAIN md : md[i][1] \in kinds}

\* the position of the heading of a section; 0 if it has none
HeadingAt(kind) ==
    IF \E i \in LinesOf({"heading"}) : md[i][2] = kind
    THEN CHOOSE i \in LinesOf({"heading"}) : md[i][2] = kind
    ELSE 0

\* the positions of the entry lines of a section: those after its heading
\* and before the next empty line
SectionEntries(kind) ==
    LET h == HeadingAt(kind)
        end == CHOOSE e \in LinesOf({"empty"}) :
                   e > h /\ \A x \in LinesOf({"empty"}) : x > h => e <= x
    IN  IF h = 0 THEN {} ELSE {i \in LinesOf(EntryKinds) : h < i /\ i < end}

\* C16: the report has the sections added, updated, removed, newly
\* disabled, newly enabled, currently disabled, read errors in this order;
\* a section has its heading and its entry lines exactly when its
\* collection is not empty, the heading giving the size of the collection;
\* the compared-with line is there exactly when an old snapshot was given;
\* the title, the counts line, the closing note and the summary line, with
\* the number of unchanged records and the sum of the five other buckets,
\* are always there.
C16_Structure ==
    dpc = "reported" =>
        LET headings == SelectSeq(md, LAMBDA line : line[1] = "heading")
            expected == SelectSeq(SectionOrder, LAMBDA kind : Collection(kind) # <<>>)
        IN  /\ Len(headings) = Len(expected)
            /\ \A k \in DOMAIN expected :
                   /\ headings[k][2] = expected[k]
                   /\ headings[k][3] = Len(Collection(expected[k]))
                   /\ Cardinality(SectionEntries(expected[k])) = Len(Collection(expected[k]))
            /\ LinesOf(EntryKinds) = UNION {SectionEntries(kind) : kind \in
                                               {SectionOrder[k] : k \in DOMAIN SectionOrder}}
            /\ Cardinality(LinesOf({"compared"})) = IF old = None THEN 0 ELSE 1
            /\ \A i \in LinesOf({"compared"}) : md[i][2] = old.timestamp
            /\ md[1] = <<"title", REPORT_NAME>>
            /\ LinesOf({"title"}) = {1}
            /\ Cardinality(LinesOf({"totals"})) = 1
            /\ \A i \in LinesOf({"totals"}) :
                   md[i] = <<"totals", new.stats.active, new.stats.disabled, new.stats.failed>>
            /\ LinesOf({"recommendation"}) = {Len(md) - 1}
            /\ LinesOf({"summary"}) = {Len(md)}
            /\ md[Len(md)] = <<"summary", Len(changes.unchanged),
                                Len(changes.added) + Len(changes.removed)
                                    + Len(changes.updated) + Len(changes.newly_disabled)
                                    + Len(changes.newly_enabled)>>

\* a report with the sections updated and read errors, of one entry each,
\* generated with an old snapshot
C16_Witness ==
    /\ dpc = "reported"
    /\ old # None
    /\ Len(changes.updated) = 1
    /\ Len(new.failed) = 1
    /\ HeadingAt("updated") > 0
    /\ HeadingAt("failed") > HeadingAt("updated")

\* the line of the report for the record r of the section kind
EntryLine(kind, r) ==
    IF kind = "updated" THEN <<"update", r.name, r.new_version, r.old_version>>
    ELSE IF kind = "failed" THEN <<"unreadable", r>>
    ELSE <<"mod", r.name, r.version>>

\* the entry lines of a section, in the order of the report
SectionLines(kind) ==
    SelectSeq([i \in DOMAIN md |-> IF i \in SectionEntries(kind) THEN md[i] ELSE <<"">>],
              LAMBDA line : line # <<"">>)

\* the key by which the entries of a section are ordered
EntryKey(kind, line) == IF kind = "failed" THEN line[2] ELSE to_lowercase(line[2])

\* C18: in each of the sections added, updated, removed, newly disabled,
\* newly enabled and currently disabled the entry lines are in ascending
\* order of lowercased name and are, line for line, the records of the
\* collection, none lost and none twice; the read-errors section has the
\* file names of new_snapshot.failed in ascending order; the currently
\* disabled section has every record of new_snapshot.disabled.
C18_Entries ==
    dpc = "reported" =>
        \A k \in DOMAIN SectionOrder :
            LET kind == SectionOrder[k]
                coll == Collection(kind)
                lines == SectionLines(kind)
                wanted == [i \in DOMAIN coll |-> EntryLine(kind, coll[i])]
            IN  /\ Len(lines) = Len(coll)
                /\ \A i, j \in DOMAIN lines :
                       i < j => ~StrLess(EntryKey(kind, lines[j]), EntryKey(kind, lines[i]))
                /\ \A line \in {wanted[i] : i \in DOMAIN wanted} :
                       Cardinality({i \in DOMAIN lines : lines[i] = line})
                           = Cardinality({i \in DOMAIN wanted : wanted[i] = line})

\* a report whose added section has the record named a before the record
\* named B, given in the other order
C18_Witness ==
    /\ dpc = "reported"
    /\ Len(changes.added) = 2
    /\ changes.added[1].name = <<"B">>
    /\ changes.added[2].name = <<"a">>
    /\ SectionLines("added") = << <<"mod", <<"a">>, <<"1">>>>, <<"mod", <<"B">>, <<"1">>>> >>

\* C17: for given old and new snapshots the report of their diff is the
\* same on every run: whatever the orders in which compare_snapshots walks
\* its two maps, generate_markdown returns the report at hand, also when
\* two records of one bucket have names that are equal ignoring case.
C17_SameReport ==
    (dpc = "reported" /\ old # None) =>
        \A ordNew \in KeyOrders(IdMap(new.active)), ordOld \in KeyOrders(IdMap(old.active)) :
            generate_markdown(REPORT_NAME, compare_snapshots(old, new, ordNew, ordOld),
                              new, Some(old), REPORT_TIME) = md

(***************************************************************************)
(* Claims about the naming helpers (specification SpecName)                *)
(***************************************************************************)
\* the characters of a slug
SlugChars == LowerCase \cup Digit \cup {".", "_", "-"}

\* a component as C19 states it: lowercased, every run of whitespace
\* replaced by one hyphen, every character that is not of a slug removed
StatedComponent(s) == StripNonSlug(ReplaceSpaceRuns(to_lowercase(s)))

\* C19, as stated: the prefix is base-version-edition, each component
\* lowercased, with whitespace runs replaced by a hyphen and the other
\* characters removed, the base being "pack" when this leaves it empty; the
\* prefix has characters of a slug only.
C19_PrefixAsStated ==
    naming.pc = "done" =>
        LET base == IF StatedComponent(naming.base_name) = <<>> THEN PACK
                    ELSE StatedComponent(naming.base_name)
        IN  /\ naming.prefix = base \o <<"-">> \o StatedComponent(naming.pack_version)
                                    \o <<"-">>
                                    \o StatedComponent(normalize_edition(naming.edition))
            /\ \A i \in DOMAIN naming.prefix : naming.prefix[i] \in SlugChars

RECURSIVE SlugFold(_, _)
\* rest read character by character after out: a space or a hyphen adds a
\* hyphen unless out ends with one, a character of a slug is added, any
\* other character is dropped
SlugFold(out, rest) ==
    IF rest = <<>> THEN out
    ELSE LET c == Head(rest)
         IN  IF IsSpace(c) \/ c = "-"
             THEN IF out # <<>> /\ out[Len(out)] = "-"
                  THEN SlugFold(out, Tail(rest))
                  ELSE SlugFold(Append(out, "-"), Tail(rest))
             ELSE IF c \in SlugChars
             THEN SlugFold(Append(out, c), Tail(rest))
             ELSE SlugFold(out, Tail(rest))

\* a component as the amended C19 states it
AmendedComponent(s) ==
    LET slug == SlugFold(<<>>, to_lowercase(trim(s)))
    IN  IF slug = <<>> THEN PACK ELSE slug

\* C19, amended: the prefix is base-version-edition; a component is
\* trimmed, lowercased, has every run of whitespace replaced by one hyphen,
\* every character outside [a-z0-9._-] removed and then every run of
\* hyphens replaced by one hyphen, and is "pack" when this leaves it
\* empty; the version is "unknown" when it is blank; the edition is the
\* normalized one; the prefix has characters of [a-z0-9._-] only, and My
\* Pack, 1.2.3, Lite give my-pack-1.2.3-lite.
C19_Prefix ==
    naming.pc = "done" =>
        /\ naming.prefix =
               AmendedComponent(naming.base_name) \o <<"-">>
                   \o (IF trim(naming.pack_version) = <<>> THEN UNKNOWN
                       ELSE AmendedComponent(naming.pack_version))
                   \o <<"-">> \o AmendedComponent(normalize_edition(naming.edition))
        /\ \A i \in DOMAIN naming.prefix : naming.prefix[i] \in SlugChars
        /\ ( /\ naming.base_name = <<"M", "y", " ", "P", "a", "c", "k">>
              /\ naming.pack_version = <<"1", ".", "2", ".", "3">>
              /\ naming.edition = <<"L", "i", "t", "e">> )
               => naming.prefix = <<"m", "y", "-", "p", "a", "c", "k", "-", "1", ".", "2", ".", "3", "-", "l", "i", "t", "e">>

\* the prefix of a base name with outer spaces, a run of spaces and a
\* capital, with a blank version and an edition given by a synonym
C19_Witness ==
    /\ naming.pc = "done"
    /\ naming.base_name = <<" ", "a", " ", " ", "B", " ">>
    /\ naming.pack_version = <<" ">>
    /\ naming.edition = <<"l", "i", "g", "h", "t">>
    /\ naming.prefix = <<"a", "-", "b", "-", "u", "n", "k", "n", "o", "w", "n", "-", "l", "i", "t", "e">>

\* the names of the primary edition, in lower case
PrimaryNames == { <<"f", "u", "l", "l">>, <<"n", "o", "r", "m", "a", "l">>, <<"d", "e", "f", "a", "u", "l", "t">> }

\* the names of the secondary edition, in lower case
SecondaryNames == { <<"l", "i", "t", "e">>, <<"l", "i", "g", "h", "t">>, <<"m", "i", "n", "i", "m", "a", "l">> }

\* C20, as stated: the display name is "base version" when the edition is
\* empty or, ignoring case, full, normal or default, and "base edition
\* version" otherwise, the edition being Lite for lite, light and minimal
\* and the edition as given for any other.
C20_DisplayAsStated ==
    naming.pc = "done" =>
        LET primary == naming.edition = <<>> \/ to_lowercase(naming.edition) \in PrimaryNames
            shown == IF to_lowercase(naming.edition) \in SecondaryNames THEN LITE
                     ELSE naming.edition
        IN  naming.display =
                IF primary THEN naming.base_name \o <<" ">> \o naming.pack_version
                ELSE naming.base_name \o <<" ">> \o shown \o <<" ">> \o naming.pack_version

\* C20, amended: with the base trimmed, and Agonia when it is blank, the
\* version trimmed, and the edition compared after trimming, the display
\* name is "base version" for a blank edition and for full, normal and
\* default in any case, and "base edition version" otherwise, the edition
\* being Lite for lite, light and minimal and the edition as given for any
\* other; the whole is trimmed.  My Pack and 1.2.3 with a primary edition
\* give My Pack 1.2.3.
C20_Display ==
    naming.pc = "done" =>
        LET base == IF trim(naming.base_name) = <<>> THEN AGONIA ELSE trim(naming.base_name)
            ver == trim(naming.pack_version)
            e == to_lowercase(trim(naming.edition))
            primary == e = <<>> \/ e \in PrimaryNames
            shown == IF e \in SecondaryNames THEN LITE ELSE naming.edition
        IN  /\ naming.display =
                   trim(IF primary THEN base \o <<" ">> \o ver
                        ELSE base \o <<" ">> \o shown \o <<" ">> \o ver)
            /\ (naming.base_name = <<"M", "y", " ", "P", "a", "c", "k">> /\ naming.pack_version = <<"1", ".", "2", ".", "3">> /\ primary)
                   => naming.display = <<"M", "y", " ", "P", "a", "c", "k", " ", "1", ".", "2", ".", "3">>

\* the display name for a synonym of the secondary edition
C20_Witness ==
    /\ naming.pc = "done"
    /\ naming.base_name = <<"M", "y", " ", "P", "a", "c", "k">>
    /\ naming.pack_version = <<"1", ".", "2", ".", "3">>
    /\ naming.edition = <<"m", "i", "n", "i", "m", "a", "l">>
    /\ naming.display = <<"M", "y", " ", "P", "a", "c", "k", " ", "L", "i", "t", "e", " ", "1", ".", "2", ".", "3">>

(***************************************************************************)
(* Claims about the application (specification Spec)                       *)
(***************************************************************************)
\* the prefix a scan thread writes under
PrefixOf(w) == build_file_prefix(BASE_NAME, workers[w].edition, PACK_VERSION)

\* a snapshot file from which no baseline can be had
Unavailable(file) == file.kind \in {"missing", "unreadable", "garbage"}

\* every active record of the scan is added, in order, and nothing else is
\* reported
AllAdded(ch, sn) ==
    /\ ch.added = sn.active
    /\ ch.removed = <<>>
    /\ ch.updated = <<>>
    /\ ch.newly_disabled = <<>>
    /\ ch.newly_enabled = <<>>
    /\ ch.unchanged = <<>>

\* the changes computed without a baseline, wherever they are held
NoBaselineChanges ==
    /\ \A w \in DOMAIN workers :
          (workers[w].pc \in {"report", "send"} /\ workers[w].old_snapshot = None)
              => AllAdded(workers[w].changes[1], workers[w].new_snapshot[1])
    /\ \A c \in DOMAIN chan : \A i \in DOMAIN chan[c] :
          chan[c][i].old_snapshot = None
              => AllAdded(chan[c][i].changes, chan[c][i].snapshot)
    /\ (app.scan_done /\ app.old_snapshot = None)
              => AllAdded(app.changes[1], app.snapshot[1])

\* a thread that cannot have a baseline goes on without one
LoadsNoBaseline ==
    \A w \in DOMAIN workers :
        ( /\ workers[w].pc = "load"
          /\ workers'[w].pc = "diff"
          /\ (Unavailable(fs.snapshot[PrefixOf(w)]) \/ workers[w].force_new) )
            => workers'[w].old_snapshot = None

\* the receipt of a result without a baseline ends in the scan-done status
ReceivesNoBaseline ==
    \A c \in DOMAIN chan :
        ( /\ chan[c] # <<>>
          /\ chan'[c] = Tail(chan[c])
          /\ Head(chan[c]).old_snapshot = None )
            => /\ app'.status[1] = "scan_done"
               /\ app'.scan_done
               /\ ~app'.scanning
               /\ app'.old_snapshot = None
               /\ app'.changes = Some(Head(chan[c]).changes)
               /\ app'.snapshot = Some(Head(chan[c]).snapshot)

\* C3: a scan thread that finds the snapshot file missing, unreadable or
\* unparseable, or runs with force_new, goes on without a baseline; the
\* changes computed without a baseline, in the thread, on the channel and
\* in the application, have added equal to the active list of the new
\* snapshot in the same order and the other five buckets empty; and the
\* receipt of such a result ends in the scan-done status, not in an error.
C3_NoBaseline ==
    []NoBaselineChanges /\ [][LoadsNoBaseline /\ ReceivesNoBaseline]_vars

\* a second scan has found the snapshot file truncated by the failed write
\* of the first, runs without force_new, and reports both active records
\* of the directory as added
C3_Witness ==
    \E w \in DOMAIN workers :
        /\ w > 1
        /\ workers[w].pc = "send"
        /\ ~workers[w].force_new
        /\ fs.snapshot[PrefixOf(w)].kind = "garbage"
        /\ workers[w].old_snapshot = None
        /\ Len(workers[w].changes[1].added) = 2
        /\ workers[w].changes[1].added = workers[w].new_snapshot[1].active

\* the stages of a scan thread, in the order of the code
Stages == <<"scan", "load", "diff", "report", "send", "done">>

\* the place of a stage in Stages
StageIndex(pc) == CHOOSE k \in DOMAIN Stages : Stages[k] = pc

\* what a thread holds at each stage, and where a result can be: a thread
\* has its new snapshot from the load stage on, its changes from the report
\* stage on and its report at the send stage; a channel holds at most one
\* result, only after the thread has sent, only while its receiver is held
OneShot ==
    /\ DOMAIN chan = DOMAIN workers
    /\ \A w \in DOMAIN workers :
          /\ workers[w].pc \in {"scan"} => workers[w].new_snapshot = None
          /\ workers[w].pc \in {"load", "diff", "report", "send"}
                 => workers[w].new_snapshot # None
          /\ workers[w].pc \in {"scan", "load", "diff"} => workers[w].changes = None
          /\ workers[w].pc \in {"report", "send"} => workers[w].changes # None
          /\ workers[w].pc \in {"scan", "load", "diff", "report"}
                 => workers[w].markdown = None
          /\ workers[w].pc = "send" => workers[w].markdown # None
          /\ Len(chan[w]) <= 1
          /\ chan[w] # <<>> => (workers[w].pc = "done" /\ app.scan_rx = Some(w))
    /\ ENABLED Update

\* a thread moves one stage at a time; it sends at the step from send to
\* done, one result into its empty channel, and at no other step; a result
\* leaves a channel only when the application, holding the receiver, takes
\* it and drops the receiver; a receiver is held only for a new thread
OneShotStep ==
    /\ \A w \in DOMAIN workers :
          /\ workers'[w].pc # workers[w].pc
                 => StageIndex(workers'[w].pc) = StageIndex(workers[w].pc) + 1
          /\ (workers[w].pc = "send" /\ workers'[w].pc = "done")
                 => (chan[w] = <<>> /\ Len(chan'[w]) = 1)
          /\ chan'[w] # chan[w]
                 => \/ workers[w].pc = "send" /\ workers'[w].pc = "done"
                    \/ /\ chan'[w] = Tail(chan[w])
                       /\ app.scan_rx = Some(w)
                       /\ app'.scan_rx = None
                       /\ app'.snapshot = Some(Head(chan[w]).snapshot)
          /\ app'.scan_rx # Some(w) \/ app.scan_rx = Some(w)
    /\ (is_some(app.scan_rx) /\ chan[app.scan_rx[1]] = <<>>)
          => (app'.scan_rx = app.scan_rx /\ app'.scanning = app.scanning)

\* C14: a scan thread runs scan, baseline load, diff and report in this
\* order and sends exactly one result on its channel; the poll in update
\* never blocks, takes at most one result for each scan started, and drops
\* the receiver when it has taken it.
C14_OneResult == []OneShot /\ [][OneShotStep]_vars

\* the second scan of a session has run to its end and its result has been
\* taken
C14_Witness ==
    /\ Len(workers) = 2
    /\ workers[2].pc = "done"
    /\ chan[2] = <<>>
    /\ app.scan_rx = None
    /\ app.scan_done
    /\ app.snapshot[1].timestamp = 2

\* the scan threads that have not returned
InFlight == {w \in DOMAIN workers : workers[w].pc # "done"}

\* C15, as stated: nothing prevents a second scan while a thread is in
\* flight; whenever a thread is in flight and the mods directory exists, a
\* further scan can be started.
C15_Overlap ==
    (InFlight # {} /\ fs.mods.exists /\ Len(workers) < MaxScans) => ENABLED StartScan

\* C15, amended: while a scan thread is in flight, or its result has not
\* been taken, scanning is set and no scan can be started; at most one
\* thread is in flight and at most one result awaits the writes of update,
\* so no two scans write the snapshot and report files at the same time.
C15_NoOverlap ==
    /\ Cardinality(InFlight) <= 1
    /\ Cardinality(InFlight \cup {w \in DOMAIN chan : chan[w] # <<>>}) <= 1
    /\ (InFlight # {} \/ \E w \in DOMAIN chan : chan[w] # <<>>)
          => (app.scanning /\ ~ENABLED StartScan)

\* a thread is in flight, the directory exists and a further scan is within
\* the bound, yet the button is disabled
C15_Witness ==
    /\ \E w \in InFlight : workers[w].pc = "load"
    /\ fs.mods.exists
    /\ Len(workers) < MaxScans
    /\ ~ENABLED StartScan

\* the prefix of the edition selected in the application
AppPrefix == build_file_prefix(BASE_NAME, EDITIONS[app.edition_index + 1], PACK_VERSION)

\* the step is the receipt of the result at the head of channel c
Receives(c) == chan[c] # <<>> /\ chan'[c] = Tail(chan[c])

\* the write of the snapshot file of result r has failed in the step
SnapshotWriteFailed(r) == fs'.snapshot[r.snapshot_path] # to_string_pretty(r.snapshot)

\* the write of the report file of result r has failed in the step
ReportWriteFailed(r) ==
    fs'.changelog[r.md_path] # [kind |-> "text", value |-> r.markdown]

\* the step has stored result r in the application, with the scan-done
\* status
StoresResult(r) ==
    /\ app'.snapshot = Some(r.snapshot)
    /\ app'.changes = Some(r.changes)
    /\ app'.markdown = r.markdown
    /\ app'.old_snapshot = r.old_snapshot
    /\ app'.scan_done
    /\ ~app'.scanning
    /\ app'.scan_rx = None
    /\ app'.status = <<"scan_done", r.snapshot.stats.active, r.snapshot.stats.disabled,
                       r.snapshot.stats.failed, total_changes(r.changes)>>

\* a receipt whose write of the snapshot or of the report fails stores the
\* result all the same
FailedWriteStores ==
    \A c \in DOMAIN chan :
        (Receives(c) /\ (SnapshotWriteFailed(Head(chan[c])) \/ ReportWriteFailed(Head(chan[c]))))
            => StoresResult(Head(chan[c]))

\* after a failed write of the snapshot, a scan of the same prefix loads the
\* baseline it would have loaded before
FailedWriteKeepsBaseline ==
    \A c \in DOMAIN chan :
        (Receives(c) /\ SnapshotWriteFailed(Head(chan[c])))
            => LoadBaseline(fs'.snapshot[Head(chan[c]).snapshot_path], FALSE)
                   = LoadBaseline(fs.snapshot[Head(chan[c]).snapshot_path], FALSE)

\* after a failed write of the snapshot, the file is as it was or is
\* truncated, and a scan of the same prefix loads the baseline it would
\* have loaded before or none
FailedWriteKeepsOrLosesBaseline ==
    \A c \in DOMAIN chan :
        (Receives(c) /\ SnapshotWriteFailed(Head(chan[c])))
            => LET path == Head(chan[c]).snapshot_path
               IN  /\ fs'.snapshot[path] \in {fs.snapshot[path], GarbageFile}
                   /\ LoadBaseline(fs'.snapshot[path], FALSE)
                          \in {LoadBaseline(fs.snapshot[path], FALSE), None}

\* C21, as stated: when the write of the snapshot file or of the report
\* file fails on receipt of a result, update still stores the snapshot, the
\* changes and the report, sets scan_done, clears scanning and shows the
\* scan-done status; and the snapshot file persisted before remains the
\* baseline of the next scan.
C21_BestEffortAsStated == [][FailedWriteStores /\ FailedWriteKeepsBaseline]_vars

\* C21, amended: when the write of the snapshot file or of the report file
\* fails on receipt of a result, update still stores the snapshot, the
\* changes and the report, sets scan_done, clears scanning and shows the
\* scan-done status; the snapshot file is then as it was before, and remains
\* the baseline of the next scan, or it is truncated, and the next scan has
\* no baseline.
C21_BestEffort == [][FailedWriteStores /\ FailedWriteKeepsOrLosesBaseline]_vars

\* the second scan of a session had a baseline, the write of its snapshot
\* has truncated the file, and its result is stored with the scan-done
\* status
C21_Witness ==
    /\ app.scan_done
    /\ ~app.scanning
    /\ is_some(app.old_snapshot)
    /\ is_some(app.snapshot)
    /\ app.status[1] = "scan_done"
    /\ fs.snapshot[AppPrefix] = GarbageFile
    /\ LoadBaseline(fs.snapshot[AppPrefix], FALSE) = None

(***************************************************************************)
(* Claims about the sanitizer (SpecSanitize)                               *)
(***************************************************************************)
RECURSIVE ModeAt(_, _)
\* the state of the tokenizer in which character i of s is read: a quote
\* read Outside opens a string; InsideString, a backslash leads to Escaped
\* and a quote closes the string; the character read Escaped is part of
\* the string
ModeAt(s, i) ==
    IF i = 1 THEN "Outside"
    ELSE LET before == ModeAt(s, i - 1)
         IN  IF before = "Outside"
             THEN IF s[i - 1] = QUOTE THEN "InsideString" ELSE "Outside"
             ELSE IF before = "Escaped" THEN "InsideString"
             ELSE IF s[i - 1] = BACKSLASH THEN "Escaped"
             ELSE IF s[i - 1] = QUOTE THEN "Outside"
             ELSE "InsideString"

RECURSIVE Flatten(_)
\* the concatenation of a sequence of texts
Flatten(parts) == IF parts = <<>> THEN <<>> ELSE Head(parts) \o Flatten(Tail(parts))

\* s with LF rewritten and CR dropped at the positions read in one of modes
Rewritten(s, modes) ==
    Flatten([i \in DOMAIN s |->
                IF ModeAt(s, i) \in modes /\ s[i] = LF THEN <<BACKSLASH, "n">>
                ELSE IF ModeAt(s, i) \in modes /\ s[i] = CR THEN <<>>
                ELSE <<s[i]>>])

\* the positions of s that hold a raw LF or CR inside a string literal
RawInString(s) == {i \in DOMAIN s : s[i] \in {LF, CR} /\ ModeAt(s, i) # "Outside"}

\* C22, as stated: escape_raw_newlines rewrites every LF inside a string
\* literal to backslash n, drops every CR inside a string literal, copies
\* every character outside string literals, a quote after a backslash
\* inside a string not ending the string; the output holds no raw LF or CR
\* inside a string literal.
C22_EscapesAsStated ==
    reader.pc = "escaped"
        => /\ reader.clean = Rewritten(reader.txt, {"InsideString", "Escaped"})
           /\ RawInString(reader.clean) = {}

\* C22, amended: escape_raw_newlines rewrites every LF inside a string
\* literal to backslash n and drops every CR inside a string literal,
\* except the character that follows an escaping backslash, which is copied
\* whatever it is; it copies every character outside string literals, and a
\* quote after an escaping backslash does not end the string; a raw LF or
\* CR of the output that lies inside a string literal follows an escaping
\* backslash.
C22_Escapes ==
    reader.pc = "escaped"
        => /\ reader.clean = Rewritten(reader.txt, {"InsideString"})
           /\ \A i \in RawInString(reader.clean) : ModeAt(reader.clean, i) = "Escaped"

\* a string that holds an escaped quote and then a LF and a CR: the quote
\* does not end it, the LF is rewritten and the CR dropped
C22_Witness ==
    /\ reader.pc = "escaped"
    /\ reader.txt = <<QUOTE, BACKSLASH, QUOTE, LF, CR>>
    /\ reader.clean = <<QUOTE, BACKSLASH, QUOTE, BACKSLASH, "n">>

\* s with every quote replaced by a letter: a text without string literals
Blind(s) == [i \in DOMAIN s |-> IF s[i] = QUOTE THEN "a" ELSE s[i]]

\* the positions of s at which pat occurs
PositionsOf(s, pat) == {i \in DOMAIN s : OccursAt(s, i, pat)}

\* the position of the first LF or CR of s from position i on, or the
\* position after the end of s
EndOfLine(s, i) ==
    LET ends == {k \in i..Len(s) : s[k] \in {LF, CR}}
    IN  IF ends = {} THEN Len(s) + 1 ELSE First(ends)

\* when the first // of the text lies inside a string literal, the text
\* from it to the end of the line is removed
LineCommentInString ==
    LET t == reader.control
        starts == PositionsOf(t, <<"/", "/">>)
    IN  (starts # {} /\ ModeAt(t, First(starts)) # "Outside")
            => /\ Len(reader.line) >= First(starts) - 1
               /\ SubSeq(reader.line, 1, First(starts) - 1) = SubSeq(t, 1, First(starts) - 1)
               /\ From(reader.line, First(starts))
                      = StripLineComments(From(t, EndOfLine(t, First(starts))))

\* when the first /* of the text left by the line comments lies inside a
\* string literal and a */ follows, the text up to that */ is removed
BlockCommentInString ==
    LET t == reader.line
        starts == PositionsOf(t, <<"/", "*">>)
        closes == {e \in PositionsOf(t, <<"*", "/">>) : e >= First(starts) + 2}
    IN  (starts # {} /\ ModeAt(t, First(starts)) # "Outside" /\ closes # {})
            => /\ Len(reader.block) >= First(starts) - 1
               /\ SubSeq(reader.block, 1, First(starts) - 1) = SubSeq(t, 1, First(starts) - 1)
               /\ From(reader.block, First(starts))
                      = StripBlockComments(From(t, First(closes) + 2))

\* C23: the steps of sanitize_json that strip comments and trailing commas
\* run before the string-aware pass and are not string-aware: a // inside a
\* string literal removes the text to the end of its line, a /* inside a
\* string literal the text up to the next */, and on a text the steps leave
\* what they leave on the text with its quotes replaced by letters.
C23_NotStringAware ==
    reader.pc = "clean"
        => /\ reader.clean = escape_raw_newlines(StripTrailingCommas(reader.block))
           /\ LineCommentInString
           /\ BlockCommentInString
           /\ Blind(StripTrailingCommas(reader.block)) = StripSteps(Blind(reader.txt))

\* the string "//," is cut at its //, closing quote included
C23_Witness ==
    /\ reader.pc = "clean"
    /\ reader.txt = <<QUOTE, "/", "/", ",", QUOTE>>
    /\ reader.line = <<QUOTE>>
    /\ reader.clean = <<QUOTE>>

\* the string that holds a block comment is emptied of it
C23_WitnessBlock ==
    /\ reader.pc = "clean"
    /\ reader.txt = <<QUOTE, "/", "*", "*", "/">>
    /\ reader.block = <<QUOTE>>

\* what is read from the document that the documents of the model stand for
IntendedMeta ==
    [id |-> <<"a">>, name |-> <<"c", LF, "d">>, version |-> <<"e">>, loader |-> FABRIC]

\* the sanitized text of the document given parses and yields the intended
\* id, name and version
ReadsAsIntended ==
    /\ reader.pc \in {"clean", "read"}
           => /\ is_some(from_str_value(reader.clean))
              /\ get_str(from_str_value(reader.clean)[1], ID_KEY) = Some(IntendedMeta.id)
              /\ get_str(from_str_value(reader.clean)[1], NAME_KEY) = Some(IntendedMeta.name)
              /\ get_str(from_str_value(reader.clean)[1], VERSION_KEY)
                     = Some(IntendedMeta.version)
    /\ reader.pc = "read" => reader.result = Some(IntendedMeta)

\* C24, as stated: for a JSON object text to which a trailing comma before
\* the closing brace, a line comment, a block comment and a raw line break
\* inside a string value have been added, none of the comments or the comma
\* inside a string value, sanitize_json returns a text that the strict
\* parser accepts and from which id, name and version are read as intended.
C24_SanitizedAsStated == is_some(reader.doc) => ReadsAsIntended

\* the closing slash of the block comment of shape d is followed at once by
\* the line comment
LineAfterBlock(d) == d.bg = d.lg /\ ~d.line_first

\* C24, amended: the same, for the texts in which no // stands inside the
\* block comment and none is formed by the closing slash of the block
\* comment and the slash that follows it.
C24_Sanitized ==
    ( /\ is_some(reader.doc)
      /\ reader.doc[1].bc # <<"/", "/">>
      /\ ~LineAfterBlock(reader.doc[1]) ) => ReadsAsIntended

\* a document with a CR LF in the name, a line feed after the trailing
\* comma, a block comment that holds a comma and a line comment that holds
\* a quote has been read as intended
C24_Witness ==
    /\ reader.pc = "read"
    /\ reader.doc = Some([brk |-> <<CR, LF>>, ws |-> <<LF>>, lc |-> <<QUOTE>>, lg |-> 4,
                           bc |-> <<",">>, bg |-> 1, line_first |-> TRUE])
    /\ reader.result = Some(IntendedMeta)

(***************************************************************************)
(* Claims about the metadata reader (SpecJar)                              *)
(***************************************************************************)
\* what the strict parse of the entry text txt yields, if it succeeds
StrictResult(txt) ==
    LET val == from_str_value(sanitize_json(txt))
        depends == get(val[1], DEPENDS_KEY)
    IN  IF val = None THEN None
        ELSE Some([id |-> unwrap_or(get_str(val[1], ID_KEY), <<>>),
                   name |-> unwrap_or(get_str(val[1], NAME_KEY), <<>>),
                   version |-> unwrap_or(get_str(val[1], VERSION_KEY), UNKNOWN),
                   loader |-> IF is_some(depends) /\ is_some(get(depends[1], QUILT_LOADER_KEY))
                              THEN QUILT ELSE FABRIC])

\* what the fallback yields on the entry text txt, if it finds a field
FallbackResult(txt) ==
    LET clean == sanitize_json(txt)
        found == [k \in {ID_KEY, NAME_KEY, VERSION_KEY} |-> regex_grab(clean, k)]
    IN  IF \A k \in DOMAIN found : found[k] = None THEN None
        ELSE Some([id |-> unwrap_or(found[ID_KEY], <<>>),
                   name |-> unwrap_or(found[NAME_KEY], <<>>),
                   version |-> unwrap_or(found[VERSION_KEY], <<>>),
                   loader |-> FABRIC])

\* what a candidate yields: nothing when it is absent or cannot be read,
\* else the result of the strict parse, else that of the fallback
Yield(e) ==
    IF e = None \/ ~e[1].readable THEN None
    ELSE IF is_some(StrictResult(e[1].txt)) THEN StrictResult(e[1].txt)
    ELSE FallbackResult(e[1].txt)

\* C25: read_meta_from_jar returns what the fabric descriptor yields, if it
\* yields a result, else what the quilt descriptor yields; a candidate that
\* exists and fails both strategies does not end the search; there is no
\* metadata only when no candidate yields a result; a result of the
\* fallback has the fabric loader.
C25_FirstYield ==
    reader.pc = "read"
        => LET fabric == Yield(reader.jar.fabric)
               quilt == Yield(reader.jar.quilt)
           IN  /\ is_some(fabric) => reader.result = fabric
               /\ (fabric = None /\ is_some(quilt)) => reader.result = quilt
               /\ (fabric = None /\ quilt = None) <=> reader.result = None
               /\ \A e \in {reader.jar.fabric, reader.jar.quilt} :
                      (is_some(Yield(e)) /\ StrictResult(e[1].txt) = None)
                          => Yield(e)[1].loader = FABRIC

\* the fabric descriptor exists and fails both strategies, and the result
\* is that of the quilt descriptor
C25_Witness ==
    /\ reader.pc = "read"
    /\ reader.jar.fabric = Some([readable |-> TRUE, txt |-> <<"{", "x">>])
    /\ is_some(reader.jar.quilt)
    /\ reader.result = Some([id |-> <<"q">>, name |-> <<>>, version |-> UNKNOWN,
                             loader |-> QUILT])

(***************************************************************************)
(* Claims about records that share an id within one list                   *)
(***************************************************************************)
\* the last record of the id i in a list
LastOf(list, i) == list[Last({k \in DOMAIN list : list[k].id = i})]

\* two records of a list share their id
SharesId(list) ==
    \E j, k \in DOMAIN list : j # k /\ list[j].id = list[k].id

Buckets == {"added", "removed", "updated", "newly_enabled", "newly_disabled", "unchanged"}

\* C26: whatever records of a list share an id, the diff holds at most one
\* entry of an id in each bucket; an entry of added, newly_enabled or
\* unchanged is the last record of its id in new.active, an entry of removed
\* the last one in old.active, an entry of newly_disabled the last one in
\* new.disabled; an id is updated or unchanged by the versions of its last
\* records in new.active and old.active, and an entry of updated is made of
\* these two records.
C26_LastWins ==
    dpc = "done"
        => /\ \A b \in Buckets : \A j, k \in DOMAIN changes[b] :
                  changes[b][j].id = changes[b][k].id => j = k
           /\ \A b \in {"added", "newly_enabled", "unchanged"} : \A k \in DOMAIN changes[b] :
                  changes[b][k] = LastOf(new.active, changes[b][k].id)
           /\ \A k \in DOMAIN changes.unchanged :
                  LastOf(new.active, changes.unchanged[k].id).version
                      = LastOf(old.active, changes.unchanged[k].id).version
           /\ \A k \in DOMAIN changes.updated :
                  LET m == LastOf(new.active, changes.updated[k].id)
                      old_mod == LastOf(old.active, changes.updated[k].id)
                  IN  /\ m.version # old_mod.version
                      /\ changes.updated[k]
                             = UpdatedMod(m.id, m.name, old_mod.version, m.version, m.filename)
           /\ \A k \in DOMAIN changes.removed :
                  changes.removed[k] = LastOf(old.active, changes.removed[k].id)
           /\ \A k \in DOMAIN changes.newly_disabled :
                  changes.newly_disabled[k]
                      = LastOf(new.disabled, changes.newly_disabled[k].id)

\* both active lists hold two records of one id with different versions,
\* the first of the new list has the version of the last of the old one,
\* and the id is updated
C26_Witness ==
    /\ dpc = "done"
    /\ SharesId(old.active) /\ SharesId(new.active)
    /\ old.active[1].version # old.active[2].version
    /\ new.active[1].version = old.active[2].version
    /\ new.active[2].version # old.active[2].version
    /\ Len(changes.updated) = 1
    /\ changes.updated[1].old_version = old.active[2].version
    /\ changes.updated[1].new_version = new.active[2].version

(***************************************************************************)
(* Claims about the scanning flag and the receiver                         *)
(***************************************************************************)
\* scanning is set exactly when a receiver is held; the receiver held is
\* that of the thread started last, no other thread is in flight and no
\* other channel holds a result; the scan button is enabled only while
\* scanning is not set
FlagAndReceiver ==
    /\ app.scanning <=> is_some(app.scan_rx)
    /\ is_some(app.scan_rx) => app.scan_rx = Some(Len(workers))
    /\ \A w \in DOMAIN workers :
          (workers[w].pc # "done" \/ chan[w] # <<>>) => app.scan_rx = Some(w)
    /\ ENABLED StartScan => ~app.scanning

\* the flag and the receiver change in the same steps: they are set by the
\* start of a thread and cleared by the receipt of the result of the thread
\* whose receiver is held, which is stored; a thread that sends finds its
\* receiver held, and its result is put on its channel
FlagAndReceiverStep ==
    /\ (app'.scanning # app.scanning) <=> (app'.scan_rx # app.scan_rx)
    /\ (~app.scanning /\ app'.scanning)
          => /\ Len(workers') = Len(workers) + 1
             /\ workers'[Len(workers')].pc = "scan"
             /\ app'.scan_rx = Some(Len(workers'))
    /\ (app.scanning /\ ~app'.scanning)
          => /\ Receives(app.scan_rx[1])
             /\ app'.scan_rx = None
             /\ app'.snapshot = Some(Head(chan[app.scan_rx[1]]).snapshot)
    /\ \A w \in DOMAIN workers :
          (workers[w].pc = "send" /\ workers'[w].pc = "done")
              => /\ app.scan_rx = Some(w)
                 /\ Len(chan'[w]) = Len(chan[w]) + 1
                 /\ chan'[w][Len(chan'[w])].snapshot = workers[w].new_snapshot[1]

\* C27: scanning is true exactly when a receiver is held; both are set
\* together by start_scan and cleared together only when a result is
\* received; a scan can be started only while scanning is false, so at most
\* one thread is in flight and no result is lost to a replaced receiver.
C27_FlagMatchesReceiver == []FlagAndReceiver /\ [][FlagAndReceiverStep]_vars

\* a second scan is running after the result of the first has been taken
C27_Witness ==
    /\ app.scan_done
    /\ app.scanning
    /\ app.scan_rx = Some(2)
    /\ workers[1].pc = "done" /\ chan[1] = <<>>
    /\ workers[2].pc = "send"

(***************************************************************************)
(* Claims about the completion of a scan (specification SpecLive)          *)
(***************************************************************************)
\* the scan of thread w has been started and its result not yet taken
Started(w) == app.scanning /\ app.scan_rx = Some(w)

\* the scan of thread w is complete for the application: its result is
\* stored, scanning is cleared and scan_done set
Completed(w) ==
    /\ Len(workers) = w
    /\ ~app.scanning
    /\ app.scan_rx = None
    /\ app.scan_done
    /\ is_some(app.snapshot) /\ app.snapshot[1].timestamp = w
    /\ is_some(app.changes)

\* thread w has ended without sending: its receiver is held, its channel is
\* empty for good, and scanning is set
Abandoned(w) ==
    /\ Started(w)
    /\ workers[w].pc = "done"
    /\ chan[w] = <<>>

\* C28, as stated: every started scan is eventually complete for the
\* application, also when its thread ends without sending a result.
C28_CompletesAsStated == \A w \in 1..MaxScans : Started(w) ~> Completed(w)

\* C28, amended: every started scan whose thread sends its result is
\* eventually complete for the application; a scan whose thread has ended
\* without sending stays started for ever, scanning set and scan_done as it
\* was.
C28_Completes ==
    /\ \A w \in 1..MaxScans : Started(w) ~> (Completed(w) \/ Abandoned(w))
    /\ [][\A w \in DOMAIN workers :
              Abandoned(w) => /\ Abandoned(w)'
                              /\ app'.scan_done = app.scan_done
                              /\ app'.snapshot = app.snapshot]_vars

\* the second scan of a session is complete
C28_Witness == Completed(2)

\* the thread of a scan has ended without sending
C28_WitnessAbandoned == \E w \in DOMAIN workers : Abandoned(w)

(***************************************************************************)
(* Claims about the order of the reads and writes of a scan                *)
(***************************************************************************)
\* the baseline of a thread and of a result is never the snapshot of the
\* same scan: it was taken before, by a scan that is complete
EarlierBaseline ==
    /\ \A w \in DOMAIN workers :
          is_some(workers[w].old_snapshot)
              => /\ workers[w].old_snapshot # workers[w].new_snapshot
                 /\ workers[w].old_snapshot[1].timestamp
                        < workers[w].new_snapshot[1].timestamp
                 /\ \E v \in 1..(w - 1) :
                        /\ workers[v].pc = "done"
                        /\ workers[w].old_snapshot[1].timestamp = v
    /\ \A w \in DOMAIN chan : \A k \in DOMAIN chan[w] :
          is_some(chan[w][k].old_snapshot)
              => chan[w][k].old_snapshot[1].timestamp < chan[w][k].snapshot.timestamp

\* the thread reads the baseline when it has its new snapshot and has sent
\* nothing, from the file as a complete scan has left it; the changes are
\* made from the new snapshot and the baseline it holds, and the report
\* from the changes; the file is written when the thread has returned
ForwardStep ==
    \A w \in DOMAIN workers :
       /\ (workers[w].pc = "load" /\ workers'[w].pc = "diff")
             => /\ is_some(workers[w].new_snapshot)
                /\ chan[w] = <<>>
                /\ fs.snapshot[PrefixOf(w)] # to_string_pretty(workers[w].new_snapshot[1])
                /\ workers'[w].old_snapshot
                       = LoadBaseline(fs.snapshot[PrefixOf(w)], workers[w].force_new)
                /\ workers'[w].new_snapshot = workers[w].new_snapshot
                /\ fs' = fs
       /\ (workers[w].pc = "diff" /\ workers'[w].pc = "report")
             => LET new_snapshot == workers[w].new_snapshot[1]
                    old_snapshot == workers[w].old_snapshot
                IN  /\ workers[w].changes = None
                    /\ IF is_some(old_snapshot)
                       THEN \E ordNew \in KeyOrders(IdMap(new_snapshot.active)),
                               ordOld \in KeyOrders(IdMap(old_snapshot[1].active)) :
                               workers'[w].changes
                                   = Some(compare_snapshots(old_snapshot[1], new_snapshot,
                                                            ordNew, ordOld))
                       ELSE workers'[w].changes = Some(FirstScanChanges(new_snapshot))
       /\ (workers[w].pc = "report" /\ workers'[w].pc = "send")
             => /\ workers[w].markdown = None
                /\ workers'[w].markdown
                       = Some(generate_markdown(
                             build_display_name(BASE_NAME, workers[w].edition, PACK_VERSION),
                             workers[w].changes[1], workers[w].new_snapshot[1],
                             workers[w].old_snapshot, clock))

\* a snapshot is written to a path only at the receipt of the result of a
\* thread that has returned, and it is the snapshot of that result
WriteAtReceipt ==
    \A p \in Prefixes :
        (fs'.snapshot[p] # fs.snapshot[p] /\ fs'.snapshot[p].kind = "json")
            => \E w \in DOMAIN workers :
                  /\ Receives(w)
                  /\ workers[w].pc = "done"
                  /\ Head(chan[w]).snapshot_path = p
                  /\ fs'.snapshot[p] = to_string_pretty(Head(chan[w]).snapshot)

SecondScanStored == app.scan_done /\ ~app.scanning /\ is_some(app.old_snapshot)

C30_WitnessSharedId ==
    /\ SecondScanStored
    /\ IdsOf(app.snapshot[1].active) \cap IdsOf(app.snapshot[1].disabled) # {}
    /\ app.status[5] = 2
====
